---------------------------- MODULE Spec2Model ----------------------------
(***************************************************************************)
(* The tool-call pipeline of the Dowhistle MCP server: the middleware      *)
(* chain built by create_app (logging, rate limiting, auth gate), the      *)
(* sliding-window rate limiter, the auth gate, and the protected and       *)
(* public tool handlers up to their backend request.                       *)
(*                                                                         *)
(* Python strings that the code inspects character by character (tokens,   *)
(* header values, user ids) are sequences of one-character strings, so     *)
(* lower(), strip(), startswith(), slicing and f-string interpolation are  *)
(* computed, not assumed.  Tool names and dictionary keys are only ever    *)
(* compared for equality and stay atomic strings.  A Python value that may *)
(* be None is an option: <<>> is None and <<v>> is the value v.            *)
(*                                                                         *)
(* The server runs on one asyncio event loop: the code between two awaits  *)
(* is one atomic step.  Every `await call_next(context)` and the await of  *)
(* the backend request is modelled as a point where other calls may run.   *)
(* time.time() is taken to be non-decreasing, and the two reads made by    *)
(* one rate-limit step (no await between them) return the same value.      *)
(***************************************************************************)
EXTENDS Integers, Sequences, FiniteSets, TLC

(***************************************************************************)
(* Bounds of the model.                                                    *)
(***************************************************************************)
\* Number of calls that can be in flight at the same time.
NumCalls == 2
\* The clock stops advancing once it has reached MaxTime seconds.
MaxTime == 90
\* Number of calls received in one behaviour of the auth-gate specification.
MaxCalls == 2

Calls == 1..NumCalls

\* Amounts by which the clock advances between steps (seconds).
TickSteps == {29, 30}

(***************************************************************************)
(* Python values.                                                          *)
(***************************************************************************)
None == <<>>
Some(v) == <<v>>

\* dict.get(key): None when the key is absent.
Get(d, k) == IF k \in DOMAIN d THEN Some(d[k]) ELSE None

\* {**d, key: value}
Put(d, k, v) == [x \in DOMAIN d \cup {k} |-> IF x = k THEN v ELSE d[x]]

EmptyDict == [x \in {} |-> <<>>]

\* str.lower() on one character, for the characters the model uses.
LowerChar(ch) ==
    CASE ch = "B" -> "b"
      [] ch = "E" -> "e"
      [] ch = "A" -> "a"
      [] ch = "R" -> "r"
      [] ch = "X" -> "x"
      [] ch = "U" -> "u"
      [] ch = "S" -> "s"
      [] ch = "I" -> "i"
      [] ch = "D" -> "d"
      [] ch = "T" -> "t"
      [] ch = "H" -> "h"
      [] ch = "O" -> "o"
      [] ch = "Z" -> "z"
      [] ch = "N" -> "n"
      [] OTHER -> ch

\* str.lower()
Lower(s) == [i \in 1..Len(s) |-> LowerChar(s[i])]

\* str.startswith(prefix)
StartsWith(s, p) == Len(s) >= Len(p) /\ SubSeq(s, 1, Len(p)) = p

\* str.strip(): leading and trailing whitespace removed.
IsSpace(ch) == ch \in {" ", "\t"}

RECURSIVE LStrip(_)
LStrip(s) == IF s # <<>> /\ IsSpace(Head(s)) THEN LStrip(Tail(s)) ELSE s

RECURSIVE RStrip(_)
RStrip(s) ==
    IF s # <<>> /\ IsSpace(s[Len(s)]) THEN RStrip(SubSeq(s, 1, Len(s) - 1)) ELSE s

Strip(s) == RStrip(LStrip(s))

\* s[-n:] for a string longer than n.
LastChars(s, n) == SubSeq(s, Len(s) - n + 1, Len(s))

\* str.isdigit(): non-empty and every character a digit.
IsDigitStr(s) ==
    /\ s # <<>>
    /\ \A i \in 1..Len(s) : s[i] \in {"0", "1", "2", "3", "4", "5", "6", "7", "8", "9"}

\* str(value) inside an f-string: None prints as "None".
Format(opt) == IF opt = None THEN <<"N", "o", "n", "e">> ELSE opt[1]

\* The literal "bearer ".
BearerPrefix == <<"b", "e", "a", "r", "e", "r", " ">>

(***************************************************************************)
(* Tools.                                                                  *)
(***************************************************************************)
\* Mutant: toggle_visibility is left out of the protected set.
ProtectedToolsMissingOne == {"get_user_profile", "create_whistle", "list_whistles"}

\* AuthMiddleware.PROTECTED_TOOLS
PROTECTED_TOOLS ==
    {"toggle_visibility", "get_user_profile", "create_whistle", "list_whistles"}

\* RateLimitMiddleware.rate_limits
rate_limits ==
    [search_businesses |-> 30,
     sign_in |-> 5,
     verify_otp |-> 10,
     resend_otp |-> 3,
     create_whistle |-> 20,
     toggle_visibility |-> 10,
     get_user_profile |-> 60,
     list_whistles |-> 60]

\* RateLimitMiddleware.default_rate_limit
default_rate_limit == 100

\* The length of the sliding window, in seconds.
WindowSeconds == 60

\* Number of trailing characters of the token used in the rate-limit key.
TokenIdLen == 8

\* rate_limits.get(tool_name, default_rate_limit)
RateLimitOf(tool_name) ==
    IF tool_name \in DOMAIN rate_limits THEN rate_limits[tool_name]
    ELSE default_rate_limit


(***************************************************************************)
(* Inputs: the strings callers send.                                       *)
(***************************************************************************)
\* "Bearer tok-12345": a well-formed credential, longer than TokenIdLen.
TokBearer ==
    <<"B", "e", "a", "r", "e", "r", " ", "t", "o", "k", "-", "1", "2", "3", "4", "5">>
\* "BEARER hdr-9": a well-formed credential in another letter case.
TokUpper == <<"B", "E", "A", "R", "E", "R", " ", "h", "d", "r", "-", "9">>
\* "sk-secret77": a raw token sent without the "Bearer " scheme.
TokRaw == <<"s", "k", "-", "s", "e", "c", "r", "e", "t", "7", "7">>
\* " Bearer tok-12345 ": well-formed once stripped.
TokPadded == <<" ">> \o TokBearer \o <<" ">>
\* " ": whitespace only.
TokBlank == <<" ">>
\* "": the empty string.
TokEmpty == <<>>

\* Values of the access_token argument (when it is supplied).
ArgTokens == {TokBearer, TokRaw, TokPadded, TokBlank, TokEmpty}
\* Values of the Authorization header (when it is sent).
HeaderTokens == {TokUpper, TokRaw}
\* Values of the user_id argument and of the X-User-Id header.
ArgUserIds == {<<"m", "e">>}
HeaderUserIds == {<<"u", "7">>, <<>>}
\* user_id values given to resend_otp: an opaque id and a phone-like one.
OtpUserIds == {<<"u", "1">>, <<"1", "2">>}

\* All dictionaries with keys among `keys`, the value of key k drawn from vals[k].
Dicts(keys, vals) ==
    UNION {[ks -> UNION {vals[k] : k \in ks}] : ks \in SUBSET keys}

WellTyped(d, vals) == \A k \in DOMAIN d : d[k] \in vals[k]

\* Argument dictionaries of a call to a protected tool.
ProtectedArguments ==
    LET vals == [access_token |-> ArgTokens, user_id |-> ArgUserIds]
    IN  {d \in Dicts({"access_token", "user_id"}, vals) : WellTyped(d, vals)}

\* Header dictionaries of the HTTP transport (none on other transports).
RequestHeaders ==
    LET vals == ("Authorization" :> HeaderTokens) @@ ("X-User-Id" :> HeaderUserIds)
    IN  {d \in Dicts({"Authorization", "X-User-Id"}, vals) : WellTyped(d, vals)}

\* Argument dictionaries of a call to resend_otp.
OtpArguments == {[user_id |-> u] : u \in OtpUserIds}

(***************************************************************************)
(* RateLimitMiddleware (middleware/rate_limit.py).                         *)
(***************************************************************************)
\* request_counts[rate_key] of a defaultdict(list): a missing key reads as [].
CountsOf(counts, rate_key) ==
    IF rate_key \in DOMAIN counts THEN counts[rate_key] ELSE <<>>

\* The composite string tool_name + ":" + identity.
RateKey(tool_name, identity) == <<tool_name, ":">> \o identity

Anonymous == <<"a", "n", "o", "n", "y", "m", "o", "u", "s">>
Unknown == <<"u", "n", "k", "n", "o", "w", "n">>

\* A key extractor that puts the phone before the country code.
GetRateLimitKeyPhoneFirst(tool_name, arguments) ==
    IF tool_name \in {"sign_in", "verify_otp", "resend_otp"}
    THEN RateKey(tool_name,
                 (IF "phone" \in DOMAIN arguments THEN arguments["phone"] ELSE Unknown)
                 \o (IF "country_code" \in DOMAIN arguments
                     THEN arguments["country_code"] ELSE <<>>))
    ELSE RateKey(tool_name, Anonymous)

\* A key extractor that gives every call without a token a key of its own
\* tool and the text "unknown".
GetRateLimitKeyUnknown(tool_name, arguments) ==
    LET access_token == Get(arguments, "access_token")
    IN  IF access_token # None /\ access_token[1] # <<>>
        THEN RateKey(tool_name,
                     IF Len(access_token[1]) > TokenIdLen
                     THEN LastChars(access_token[1], TokenIdLen)
                     ELSE access_token[1])
        ELSE RateKey(tool_name, Unknown)

\* A key extractor that tells the callers of the OTP tools apart by user_id
\* when they send no phone.
GetRateLimitKeyPerUser(tool_name, arguments) ==
    IF tool_name \in {"sign_in", "verify_otp", "resend_otp"}
    THEN LET phone == IF "phone" \in DOMAIN arguments THEN arguments["phone"]
                      ELSE IF "user_id" \in DOMAIN arguments THEN arguments["user_id"]
                      ELSE Unknown
             country_code == IF "country_code" \in DOMAIN arguments
                             THEN arguments["country_code"] ELSE <<>>
         IN  RateKey(tool_name, country_code \o phone)
    ELSE RateKey(tool_name, Anonymous)

\* _get_rate_limit_key
GetRateLimitKey(tool_name, arguments) ==
    IF tool_name \in {"sign_in", "verify_otp", "resend_otp"}
    THEN LET phone == IF "phone" \in DOMAIN arguments
                      THEN arguments["phone"] ELSE Unknown
             country_code == IF "country_code" \in DOMAIN arguments
                             THEN arguments["country_code"] ELSE <<>>
         IN  RateKey(tool_name, country_code \o phone)
    ELSE LET access_token == Get(arguments, "access_token")
         IN  IF access_token # None /\ access_token[1] # <<>>
             THEN RateKey(tool_name,
                          IF Len(access_token[1]) > TokenIdLen
                          THEN LastChars(access_token[1], TokenIdLen)
                          ELSE access_token[1])
             ELSE RateKey(tool_name, Anonymous)

\* Mutant: the comparison lets an entry exactly one window old stay.
InWindowInclusive(req_time, current_time) == current_time - req_time <= WindowSeconds

\* Mutant: only half a window is counted.
InWindowHalf(req_time, current_time) == 2 * (current_time - req_time) < WindowSeconds

\* The test of the list comprehension of _is_rate_limited.
InWindow(req_time, current_time) == current_time - req_time < WindowSeconds

\* The list comprehension of _is_rate_limited: entries older than a minute go.
Prune(times, current_time) ==
    SelectSeq(times, LAMBDA req_time : InWindow(req_time, current_time))

\* request_counts after _is_rate_limited(tool_name, rate_key) ran at current_time.
CleanOldRequests(counts, rate_key, current_time) ==
    Put(counts, rate_key, Prune(CountsOf(counts, rate_key), current_time))

\* Mutant: the limit is compared with > instead of >=.
IsRateLimitedOffByOne(counts, tool_name, rate_key, current_time) ==
    Len(Prune(CountsOf(counts, rate_key), current_time)) > RateLimitOf(tool_name)

\* The value _is_rate_limited returns.
IsRateLimited(counts, tool_name, rate_key, current_time) ==
    Len(Prune(CountsOf(counts, rate_key), current_time)) >= RateLimitOf(tool_name)

\* Mutant: recording a request forgets the windows of all other keys.
RecordRequestAlone(counts, rate_key, current_time) ==
    Put(EmptyDict, rate_key, Append(CountsOf(counts, rate_key), current_time))

\* _record_request
RecordRequest(counts, rate_key, current_time) ==
    Put(counts, rate_key, Append(CountsOf(counts, rate_key), current_time))

\* Mutant: the request is recorded before the limit is checked.
RateLimitCountsRecordFirst(counts, tool_name, rate_key, current_time) ==
    RecordRequest(CleanOldRequests(counts, rate_key, current_time),
                  rate_key, current_time)

\* request_counts after RateLimitMiddleware.on_call_tool, up to its raise or its
\* call_next.
RateLimitCounts(counts, tool_name, rate_key, current_time) ==
    IF IsRateLimited(counts, tool_name, rate_key, current_time)
    THEN CleanOldRequests(counts, rate_key, current_time)
    ELSE RecordRequest(CleanOldRequests(counts, rate_key, current_time),
                       rate_key, current_time)

(***************************************************************************)
(* AuthMiddleware (middleware/auth.py).                                    *)
(***************************************************************************)
\* str(k).lower() on the header names the model uses.
LowerName(k) ==
    CASE k = "Authorization" -> "authorization"
      [] k = "X-User-Id" -> "x-user-id"
      [] OTHER -> k

\* normalized_headers = {str(k).lower(): v for k, v in headers.items()}
NormalizeHeaders(headers) ==
    [n \in {LowerName(k) : k \in DOMAIN headers} |->
        headers[CHOOSE k \in DOMAIN headers : LowerName(k) = n]]

\* access_token.lower().startswith('bearer ')
HasBearerPrefix(token) == StartsWith(Lower(token), BearerPrefix)

\* The access_token taken from the headers: the authorization header when it
\* is a bearer value, else None.
HeaderAccessToken(headers) ==
    LET auth_header == Get(NormalizeHeaders(headers), "authorization")
    IN  IF auth_header # None /\ HasBearerPrefix(auth_header[1])
        THEN auth_header ELSE None

\* user_id = normalized_headers.get('x-user-id') or None
HeaderUserId(headers) ==
    LET user_id == Get(NormalizeHeaders(headers), "x-user-id")
    IN  IF user_id # None /\ user_id[1] # <<>> THEN user_id ELSE None

\* The access_token after the fallback to the tool arguments.
ResolveAccessToken(headers, arguments) ==
    IF HeaderAccessToken(headers) # None
    THEN HeaderAccessToken(headers)
    ELSE LET arg_token == Get(arguments, "access_token")
         IN  IF arg_token # None /\ Strip(arg_token[1]) # <<>>
             THEN Some(Strip(arg_token[1])) ELSE None

\* not (not access_token or not access_token.lower().startswith('bearer '))
TokenAccepted(access_token) ==
    /\ access_token # None
    /\ access_token[1] # <<>>
    /\ HasBearerPrefix(access_token[1])

\* Mutant: the resolved credential overwrites a supplied argument.
SetDefaultTokenOverwrite(arguments, access_token) ==
    Put(arguments, "access_token", access_token)

\* arguments.setdefault('access_token', access_token)
SetDefaultToken(arguments, access_token) ==
    IF "access_token" \in DOMAIN arguments THEN arguments
    ELSE Put(arguments, "access_token", access_token)

\* if user_id and 'user_id' not in arguments: arguments['user_id'] = user_id
SetUserId(arguments, user_id) ==
    IF user_id # None /\ "user_id" \notin DOMAIN arguments
    THEN Put(arguments, "user_id", user_id[1]) ELSE arguments

\* The arguments after the injection made for an admitted call.
InjectArguments(arguments, access_token, user_id) ==
    SetUserId(SetDefaultToken(arguments, access_token[1]), user_id)

\* The text of the warning logged for a rejected call.
RejectedLogLine(tool_name, access_token) ==
    <<"Protected tool accessed without valid token: ", tool_name, " (token: ">>
        \o Format(access_token) \o <<")">>

\* The text of the entry logged for an admitted call.
AdmittedLogLine(tool_name, access_token) ==
    <<"Token provided for protected tool: ", tool_name>>

(***************************************************************************)
(* create_app (app.py): the middleware chain, outermost first.             *)
(***************************************************************************)
\* Mutant: the auth gate is added before the rate limiter.
MiddlewareChainAuthFirst == <<"logging", "auth", "rate_limit">>

MiddlewareChain == <<"logging", "rate_limit", "auth">>

\* Mutant: the rate limiter hands the call straight to the tool.
NextStageSkipsAuth(stage) == IF stage = "logging" THEN "rate_limit" ELSE "tool"

\* The stage call_next hands the call to: the next middleware, or the tool.
NextStage(stage) ==
    LET i == CHOOSE j \in 1..Len(MiddlewareChain) : MiddlewareChain[j] = stage
    IN  IF i < Len(MiddlewareChain) THEN MiddlewareChain[i + 1] ELSE "tool"

(***************************************************************************)
(* Tool handlers (agents/user.py, agents/auth.py), up to the backend call. *)
(***************************************************************************)
\* The user_id checks of resend_otp.
ValidUserId(user_id) ==
    /\ user_id # <<>>
    /\ ~IsDigitStr(user_id)
    /\ ~StartsWith(user_id, <<"+">>)

\* Whether the handler's own checks let the call go on to the backend.
ToolInputValid(tool_name, arguments) ==
    IF tool_name = "resend_otp"
    THEN "user_id" \in DOMAIN arguments /\ ValidUserId(arguments["user_id"])
    ELSE IF tool_name = "verify_otp"
    THEN /\ "user_id" \in DOMAIN arguments /\ ValidUserId(arguments["user_id"])
         /\ "otp_code" \in DOMAIN arguments /\ IsDigitStr(arguments["otp_code"])
    ELSE "access_token" \in DOMAIN arguments

\* The request the handler hands to api_client.request: the endpoint and the
\* Authorization header it sets (None when the handler sets none).
ToolRequest(tool_name, arguments) ==
    CASE tool_name = "toggle_visibility" ->
            [method |-> "PUT", endpoint |-> "/user",
             authorization |-> Get(arguments, "access_token")]
      [] tool_name = "get_user_profile" ->
            [method |-> "GET", endpoint |-> "/user",
             authorization |-> Get(arguments, "access_token")]
      [] tool_name = "verify_otp" ->
            [method |-> "POST", endpoint |-> "/twilio/verify-otp",
             authorization |-> None]
      [] OTHER ->
            [method |-> "POST", endpoint |-> "/twilio/resend-otp",
             authorization |-> None]

(***************************************************************************)
(* State.                                                                  *)
(***************************************************************************)
VARIABLES
    now,             \* the value time.time() returns
    request_counts,  \* RateLimitMiddleware.request_counts: key -> timestamps
    admitted,        \* history: every timestamp ever recorded, per key
    recorded,        \* history: per call, the key it recorded a timestamp under
    pc,              \* per call: the stage that handles the call next
    message,         \* per call: context.message (name, arguments)
    headers,         \* per call: context.request.headers
    original,        \* history: per call, the arguments as they were received
    trace,           \* history: per call, the stages that handled it, in order
    log,             \* per call: the entries the auth gate logged for it
    backend,         \* per call: the request sent to the backend, or None
    result,          \* per call: what the caller got
    started          \* number of calls received so far

vars == <<now, request_counts, admitted, recorded, pc, message, headers, original, trace,
          log, backend, result, started>>

NoMessage == [name |-> "", arguments |-> EmptyDict]

\* One invocation of a tool handler, followed from its first statement to its
\* return through the attempts of APIClient.request.
VARIABLES
    invocation,  \* the call the handler was invoked with (name, arguments)
    position,    \* where the handler stands: "idle", "called", "attempt", "sleep", "returned"
    attempts,    \* history: the outcome of every attempt of the backend call
    sleeps,      \* history: the waits between the attempts, in seconds
    requests,    \* history: the HTTP requests issued to the backend
    raised,      \* the error APIClient.request raised into the handler, or None
    returned,    \* what the handler returned, or None
    escaped,     \* whether an exception left the handler
    derived_key  \* the key the rate limiter derived for the invocation, or None

hvars == <<invocation, position, attempts, sleeps, requests, raised, returned, escaped,
           derived_key>>

\* No handler has been invoked.
HandlerIdle ==
    /\ invocation = NoMessage
    /\ position = "idle"
    /\ attempts = <<>>
    /\ sleeps = <<>>
    /\ requests = <<>>
    /\ raised = None
    /\ returned = None
    /\ escaped = FALSE
    /\ derived_key = None

\* The middleware state after construction when counts = EmptyDict; with other
\* counts, the state once the calls that left them have all returned.
PipelineInit(counts) ==
    /\ now = 0
    /\ request_counts = counts
    /\ admitted = counts
    /\ recorded = [c \in Calls |-> None]
    /\ pc = [c \in Calls |-> "idle"]
    /\ message = [c \in Calls |-> NoMessage]
    /\ headers = [c \in Calls |-> EmptyDict]
    /\ original = [c \in Calls |-> EmptyDict]
    /\ trace = [c \in Calls |-> <<>>]
    /\ log = [c \in Calls |-> <<>>]
    /\ backend = [c \in Calls |-> None]
    /\ result = [c \in Calls |-> "none"]
    /\ started = 0

InitWith(counts) == PipelineInit(counts) /\ HandlerIdle

Init == InitWith(EmptyDict)

\* The window of anonymous toggle_visibility calls, one short of its limit:
\* what that many calls made in the first second leave behind.
BusyCounts ==
    LET rate_key == RateKey("toggle_visibility", Anonymous)
    IN  Put(EmptyDict, rate_key,
            [i \in 1..(RateLimitOf("toggle_visibility") - 1) |-> 0])

InitProtected == InitWith(EmptyDict) \/ InitWith(BusyCounts)

(***************************************************************************)
(* Steps of one call.                                                      *)
(***************************************************************************)
\* A tool call arrives and LoggingMiddleware.on_message, the outermost layer,
\* hands it on.  A finished call's slot is taken over by the new call.
Receive(c, tool_name, arguments, hdrs) ==
    /\ pc[c] \in {"idle", "done"}
    /\ pc' = [pc EXCEPT ![c] = NextStage("logging")]
    /\ message' = [message EXCEPT ![c] = [name |-> tool_name, arguments |-> arguments]]
    /\ headers' = [headers EXCEPT ![c] = hdrs]
    /\ original' = [original EXCEPT ![c] = arguments]
    /\ trace' = [trace EXCEPT ![c] = <<"logging">>]
    /\ log' = [log EXCEPT ![c] = <<>>]
    /\ backend' = [backend EXCEPT ![c] = None]
    /\ result' = [result EXCEPT ![c] = "none"]
    /\ recorded' = [recorded EXCEPT ![c] = None]
    /\ UNCHANGED <<now, request_counts, admitted>>
    /\ UNCHANGED hvars

\* RateLimitMiddleware.on_call_tool, up to its raise or its call_next.
RateLimit(c) ==
    /\ pc[c] = "rate_limit"
    /\ LET tool_name == message[c].name
           rate_key == GetRateLimitKey(tool_name, message[c].arguments)
           limited == IsRateLimited(request_counts, tool_name, rate_key, now)
           counts == RateLimitCounts(request_counts, tool_name, rate_key, now)
           appended == Len(CountsOf(counts, rate_key))
                         > Cardinality({i \in DOMAIN CountsOf(request_counts, rate_key) :
                                now - CountsOf(request_counts, rate_key)[i] < WindowSeconds})
       IN  /\ request_counts' = counts
           /\ admitted' =
                IF appended
                THEN Put(admitted, rate_key, Append(CountsOf(admitted, rate_key), now))
                ELSE admitted
           /\ recorded' = [recorded EXCEPT ![c] = IF appended THEN Some(rate_key) ELSE None]
           /\ pc' = [pc EXCEPT ![c] = IF limited THEN "done" ELSE NextStage("rate_limit")]
           /\ result' = [result EXCEPT ![c] = IF limited THEN "rate_limited" ELSE @]
    /\ trace' = [trace EXCEPT ![c] = Append(@, "rate_limit")]
    /\ UNCHANGED <<now, message, headers, original, log, backend, started>>
    /\ UNCHANGED hvars

\* AuthMiddleware.on_call_tool, up to its raise or its call_next.
Auth(c) ==
    /\ pc[c] = "auth"
    /\ LET tool_name == message[c].name
           arguments == message[c].arguments
           access_token == ResolveAccessToken(headers[c], arguments)
           user_id == HeaderUserId(headers[c])
       IN  IF tool_name \notin PROTECTED_TOOLS
           THEN /\ pc' = [pc EXCEPT ![c] = NextStage("auth")]
                /\ UNCHANGED <<message, log, result>>
           ELSE IF ~TokenAccepted(access_token)
           THEN /\ log' = [log EXCEPT ![c] =
                             Append(@, RejectedLogLine(tool_name, access_token))]
                /\ result' = [result EXCEPT ![c] = "auth_required"]
                /\ pc' = [pc EXCEPT ![c] = "done"]
                /\ UNCHANGED message
           ELSE /\ message' = [message EXCEPT ![c].arguments =
                                 InjectArguments(arguments, access_token, user_id)]
                /\ log' = [log EXCEPT ![c] =
                             Append(@, AdmittedLogLine(tool_name, access_token))]
                /\ pc' = [pc EXCEPT ![c] = NextStage("auth")]
                /\ UNCHANGED result
    /\ trace' = [trace EXCEPT ![c] = Append(@, "auth")]
    /\ UNCHANGED <<now, request_counts, admitted, recorded, headers, original, backend, started>>
    /\ UNCHANGED hvars

\* The tool handler, up to its return of an error or its await of the backend.
Tool(c) ==
    /\ pc[c] = "tool"
    /\ LET tool_name == message[c].name
           arguments == message[c].arguments
       IN  IF ToolInputValid(tool_name, arguments)
           THEN /\ backend' = [backend EXCEPT ![c] = Some(ToolRequest(tool_name, arguments))]
                /\ pc' = [pc EXCEPT ![c] = "backend"]
                /\ UNCHANGED result
           ELSE /\ result' = [result EXCEPT ![c] = "invalid"]
                /\ pc' = [pc EXCEPT ![c] = "done"]
                /\ UNCHANGED backend
    /\ trace' = [trace EXCEPT ![c] = Append(@, "tool")]
    /\ UNCHANGED <<now, request_counts, admitted, recorded, message, headers, original, log, started>>
    /\ UNCHANGED hvars

\* The backend answers (ok) or the request fails; the handler returns.
Backend(c, ok) ==
    /\ pc[c] = "backend"
    /\ pc' = [pc EXCEPT ![c] = "done"]
    /\ result' = [result EXCEPT ![c] = IF ok THEN "success" ELSE "error"]
    /\ trace' = [trace EXCEPT ![c] = Append(@, "backend")]
    /\ UNCHANGED <<now, request_counts, admitted, recorded, message, headers, original, log,
                   backend, started>>
    /\ UNCHANGED hvars

\* Time passes.
Tick(d) ==
    /\ now + d <= MaxTime
    /\ now' = now + d
    /\ UNCHANGED <<request_counts, admitted, recorded, pc, message, headers, original, trace,
                   log, backend, result, started>>
    /\ UNCHANGED hvars

(***************************************************************************)
(* Specifications.                                                         *)
(***************************************************************************)
\* Calls to the protected tools, with every combination of headers and
\* arguments, one after the other: the auth gate reads and writes nothing but
\* the call's own context.
ReceiveProtected(c) ==
    /\ c = 1
    /\ started < MaxCalls
    /\ started' = started + 1
    /\ \E tool_name \in {"toggle_visibility", "get_user_profile"},
          arguments \in ProtectedArguments, hdrs \in RequestHeaders :
            Receive(c, tool_name, arguments, hdrs)

\* Calls to resend_otp, whose limit is the smallest of the table.
ReceiveOtp(c) ==
    /\ UNCHANGED started
    /\ \E arguments \in OtpArguments : Receive(c, "resend_otp", arguments, EmptyDict)

Step(c) ==
    \/ RateLimit(c)
    \/ Auth(c)
    \/ Tool(c)
    \/ \E ok \in BOOLEAN : Backend(c, ok)

\* The pipeline under calls to protected tools.
Next == \E c \in Calls : ReceiveProtected(c) \/ Step(c)

Spec == InitProtected /\ [][Next]_vars

\* The pipeline under a load of resend_otp calls while time passes.
NextRate ==
    \/ \E c \in Calls : ReceiveOtp(c) \/ Step(c)
    \/ \E d \in TickSteps : Tick(d)

SpecRate == Init /\ [][NextRate]_vars

(***************************************************************************)
(* Vocabulary of the properties.                                           *)
(***************************************************************************)
\* Call c takes its rate-limit step.
RateStep(c) == pc[c] = "rate_limit" /\ pc'[c] # "rate_limit"

\* The rate-limit key and limit of call c (the key is derived from the
\* arguments as received: the rate limiter runs on them).
KeyOf(c) == GetRateLimitKey(message[c].name, original[c])
LimitOf(c) == RateLimitOf(message[c].name)

\* Number of timestamps of `times` in the 60-second window that ends at t.
CountInWindow(times, t) ==
    Cardinality({i \in DOMAIN times : times[i] <= t /\ t - times[i] < WindowSeconds})

\* The tools the properties call protected.
ProtectedNames ==
    {"toggle_visibility", "get_user_profile", "create_whistle", "list_whistles"}

\* The text `sub` occurs in the text s.
Contains(s, sub) ==
    \E i \in 1..(Len(s) - Len(sub) + 1) : SubSeq(s, i, i + Len(sub) - 1) = sub

IsPrefix(a, b) == Len(a) <= Len(b) /\ a = SubSeq(b, 1, Len(a))

IsSorted(times) ==
    \A i, j \in DOMAIN times : i < j => times[i] <= times[j]

(***************************************************************************)
(* C1.  For a key whose tool has limit N: a call is admitted whenever      *)
(* fewer than N calls were recorded for the key in the last 60 seconds     *)
(* (so N calls from an empty window are all admitted), it is rejected as   *)
(* rate limited when N were recorded in the last 60 seconds, and it is     *)
(* admitted again once 60 seconds have passed since the earliest of the    *)
(* last N recorded calls.                                                  *)
(***************************************************************************)
C1_WindowAdmission ==
    [][\A c \in Calls : RateStep(c) =>
          LET times == CountsOf(admitted, KeyOf(c))
              N == LimitOf(c)
              isAdmitted == recorded'[c] = Some(KeyOf(c)) /\ result'[c] = "none"
              isRejected == recorded'[c] = None /\ result'[c] = "rate_limited"
          IN  /\ CountInWindow(times, now) < N => isAdmitted
              /\ CountInWindow(times, now) >= N => isRejected
              /\ (Len(times) >= N /\ now - times[Len(times) - N + 1] >= WindowSeconds)
                    => isAdmitted]_vars

\* A key saw N calls admitted inside one window and a further call admitted
\* 60 seconds or more after the first, while a rejected call is on record.
C1_Witness ==
    \E c \in Calls :
        /\ result[c] = "rate_limited"
        /\ LET times == CountsOf(admitted, KeyOf(c))
               N == LimitOf(c)
           IN  /\ Len(times) > N
               /\ times[N] - times[1] < WindowSeconds
               /\ times[N + 1] - times[1] >= WindowSeconds

(***************************************************************************)
(* C2.  Whatever the interleaving of the calls in flight, the number of    *)
(* timestamps recorded for a key inside any 60-second window never exceeds *)
(* the limit of the key's tool.  (A window holds the most timestamps when  *)
(* it ends at one of them, so the windows that end at a recorded timestamp *)
(* decide it for all.)                                                     *)
(***************************************************************************)
C2_WindowNeverOverLimit ==
    \A rate_key \in DOMAIN admitted :
        \A i \in DOMAIN admitted[rate_key] :
            CountInWindow(admitted[rate_key], admitted[rate_key][i])
                <= RateLimitOf(rate_key[1])

\* Two calls admitted under the same key are in flight together and the key's
\* window is full.
C2_Witness ==
    \E c1, c2 \in Calls :
        /\ c1 # c2
        /\ pc[c1] \in {"auth", "tool", "backend"}
        /\ pc[c2] \in {"auth", "tool", "backend"}
        /\ recorded[c1] = Some(KeyOf(c1))
        /\ recorded[c2] = recorded[c1]
        /\ CountInWindow(CountsOf(admitted, KeyOf(c1)), now) = LimitOf(c1)

(***************************************************************************)
(* C3.  A request of a protected tool never reaches the backend with an    *)
(* Authorization value that is not a non-empty string whose lowercased     *)
(* form starts with "bearer ".                                             *)
(***************************************************************************)
C3_BackendCredentialWellFormed ==
    \A c \in Calls :
        (backend[c] # None /\ message[c].name \in ProtectedNames) =>
            LET authorization == backend[c][1].authorization
            IN  /\ authorization # None
                /\ authorization[1] # <<>>
                /\ StartsWith(Lower(authorization[1]), BearerPrefix)

(***************************************************************************)
(* C4.  A call to a protected tool with neither an access_token argument   *)
(* nor an authorization header sends no backend request and, when it has   *)
(* returned, was rejected with the auth-required error.                    *)
(***************************************************************************)
NoCredential(c) ==
    /\ message[c].name \in ProtectedNames
    /\ "access_token" \notin DOMAIN original[c]
    /\ "Authorization" \notin DOMAIN headers[c]

C7_RejectionRecordsNothing ==
    [][\A c \in Calls : (RateStep(c) /\ result'[c] = "rate_limited") =>
          LET rate_key == KeyOf(c)
              counted(times) == SelectSeq(times, LAMBDA t : now - t < WindowSeconds)
          IN  /\ counted(CountsOf(request_counts', rate_key))
                   = counted(CountsOf(request_counts, rate_key))
              /\ Len(CountsOf(request_counts', rate_key))
                   <= Len(CountsOf(request_counts, rate_key))
              /\ \A k \in DOMAIN request_counts \ {rate_key} :
                   k \in DOMAIN request_counts' /\ request_counts'[k] = request_counts[k]
              /\ admitted' = admitted
              /\ recorded'[c] = None]_vars

\* A call was rejected while its key's window held as many entries as the limit.
C7_Witness ==
    \E c \in Calls :
        /\ result[c] = "rate_limited"
        /\ pc[c] = "done"
        /\ Len(CountsOf(request_counts, KeyOf(c))) = LimitOf(c)

(***************************************************************************)
(* C8.  Right after a rate-limit check made at time t on a key, every      *)
(* timestamp stored for the key lies in the 60-second window that ends at  *)
(* t, and the stored sequence is in non-decreasing order.                  *)
(***************************************************************************)
C8_StoredWithinWindow ==
    [][\A c \in Calls : RateStep(c) =>
          LET times == CountsOf(request_counts', KeyOf(c))
          IN  /\ KeyOf(c) \in DOMAIN request_counts'
              /\ \A i \in DOMAIN times :
                    times[i] <= now /\ now - times[i] < WindowSeconds
              /\ IsSorted(times)]_vars

\* A check has just pruned older entries of a key and kept or added newer ones.
C8_Witness ==
    \E c \in Calls :
        /\ pc[c] = "auth"
        /\ recorded[c] = Some(KeyOf(c))
        /\ LET times == CountsOf(request_counts, KeyOf(c))
               history == CountsOf(admitted, KeyOf(c))
           IN  /\ Len(times) >= 2
               /\ Len(history) > Len(times)
               /\ times[Len(times)] = now

(***************************************************************************)
(* C9.  No entry the auth gate logs, for an admitted or a rejected call,   *)
(* contains a credential the caller supplied in full.                      *)
(***************************************************************************)
\* The credentials call c supplied: its Authorization header and its
\* access_token argument, surrounding whitespace aside.
SuppliedCredentials(c) ==
    {Strip(s) : s \in
        {headers[c][k] : k \in DOMAIN headers[c] \cap {"Authorization"}}
        \cup {original[c][k] : k \in DOMAIN original[c] \cap {"access_token"}}}
    \ {<<>>}

C9_NoFullCredentialLogged ==
    \A c \in Calls :
        \A i \in DOMAIN log[c] :
            \A credential \in SuppliedCredentials(c) :
                ~Contains(log[c][i], credential)

(***************************************************************************)
(* C10.  When the auth gate admits a call, every argument the call         *)
(* supplied keeps its value; access_token is added, with the resolved      *)
(* credential as its value, only when the call supplied none; user_id is   *)
(* added, with the x-user-id header as its value, only when that header is *)
(* present and the call supplied no user_id; nothing else is added.        *)
(***************************************************************************)
AdmittedByAuth(c) ==
    /\ message[c].name \in ProtectedNames
    /\ Len(trace[c]) >= 3
    /\ trace[c][3] = "auth"
    /\ result[c] # "auth_required"

C10_InjectionKeepsSuppliedArguments ==
    \A c \in Calls :
        AdmittedByAuth(c) =>
            LET arguments == message[c].arguments
                added == DOMAIN arguments \ DOMAIN original[c]
            IN  /\ \A k \in DOMAIN original[c] :
                      k \in DOMAIN arguments /\ arguments[k] = original[c][k]
                /\ added \subseteq {"access_token", "user_id"}
                /\ "access_token" \in DOMAIN arguments
                /\ "access_token" \in added =>
                      /\ "Authorization" \in DOMAIN headers[c]
                      /\ arguments["access_token"] = headers[c]["Authorization"]
                /\ "user_id" \in added =>
                      /\ "X-User-Id" \in DOMAIN headers[c]
                      /\ arguments["user_id"] = headers[c]["X-User-Id"]

\* An admitted call supplied its own access_token and user_id while the
\* headers carried another credential and another user id.
C10_Witness ==
    \E c \in Calls :
        /\ AdmittedByAuth(c)
        /\ {"access_token", "user_id"} \subseteq DOMAIN original[c]
        /\ {"Authorization", "X-User-Id"} \subseteq DOMAIN headers[c]
        /\ HasBearerPrefix(headers[c]["Authorization"])
        /\ headers[c]["Authorization"] # original[c]["access_token"]
        /\ headers[c]["X-User-Id"] \notin {<<>>, original[c]["user_id"]}

(***************************************************************************)
(* The key extractor on its own: RateLimitMiddleware._get_rate_limit_key   *)
(* applied to one call.                                                    *)
(***************************************************************************)
\* Tool names given to the key extractor: the three it keys by phone, a
\* protected tool and a public tool.
KeyTools == {"sign_in", "verify_otp", "resend_otp", "toggle_visibility", "search_businesses"}

\* access_token values: empty, shorter than, as long as and longer than the
\* eight characters the key keeps.
KeyTokens ==
    {<<>>, <<"a", "b", "c">>, <<"1", "2", "3", "4", "5", "6", "7", "8">>,
     <<"0", "1", "2", "3", "4", "5", "6", "7", "8">>, TokRaw}
KeyPhones == {<<>>, <<"5", "5", "5">>, <<"+", "1", "5", "5", "5">>}
KeyCountryCodes == {<<>>, <<"+", "1">>, <<"9", "1">>}

\* Argument dictionaries given to the key extractor.
KeyArguments ==
    LET vals == [phone |-> KeyPhones, country_code |-> KeyCountryCodes,
                 access_token |-> KeyTokens]
    IN  {d \in Dicts({"phone", "country_code", "access_token"}, vals) : WellTyped(d, vals)}

\* A call has arrived at a handler or a middleware and nothing has run yet.
Called(calls) ==
    /\ invocation \in calls
    /\ position = "called"
    /\ attempts = <<>>
    /\ sleeps = <<>>
    /\ requests = <<>>
    /\ raised = None
    /\ returned = None
    /\ escaped = FALSE
    /\ derived_key = None

InitKey ==
    /\ PipelineInit(EmptyDict)
    /\ Called({[name |-> tool_name, arguments |-> arguments] :
                  tool_name \in KeyTools, arguments \in KeyArguments})

\* _get_rate_limit_key runs on the call.
ExtractKey ==
    /\ position = "called"
    /\ derived_key' = Some(GetRateLimitKey(invocation.name, invocation.arguments))
    /\ position' = "keyed"
    /\ UNCHANGED <<invocation, attempts, sleeps, requests, raised, returned, escaped>>
    /\ UNCHANGED vars

NextKey == ExtractKey

SpecKey == InitKey /\ [][NextKey]_<<vars, hvars>>

(***************************************************************************)
(* C11.  The rate-limit key always exists and is the tool name, ":" and an *)
(* identity: for sign_in, verify_otp and resend_otp the raw country_code   *)
(* argument (empty when missing) followed by the raw phone argument        *)
(* ("unknown" when missing); for any other tool the last eight characters  *)
(* of a non-empty access_token argument (all of it when it has eight or    *)
(* fewer), and "anonymous" when there is none.                             *)
(***************************************************************************)
\* The part of a key after the tool name and the colon.
KeyIdentity(key) == SubSeq(key, 3, Len(key))

\* Argument k of the invocation, or `default` when it was not given.
ArgumentOr(k, default) ==
    IF k \in DOMAIN invocation.arguments THEN invocation.arguments[k] ELSE default

C11_KeyFormat ==
    position = "keyed" =>
        /\ derived_key # None
        /\ Len(derived_key[1]) >= 2
        /\ derived_key[1][1] = invocation.name
        /\ derived_key[1][2] = ":"
        /\ LET identity == KeyIdentity(derived_key[1])
               token == ArgumentOr("access_token", <<>>)
           IN  IF invocation.name \in {"sign_in", "verify_otp", "resend_otp"}
               THEN identity = ArgumentOr("country_code", <<>>)
                                 \o ArgumentOr("phone", <<"u", "n", "k", "n", "o", "w", "n">>)
               ELSE IF token = <<>>
               THEN identity = <<"a", "n", "o", "n", "y", "m", "o", "u", "s">>
               ELSE IF Len(token) <= 8
               THEN identity = token
               ELSE /\ Len(identity) = 8
                    /\ \A i \in 1..8 : identity[i] = token[Len(token) - 8 + i]

\* An OTP tool keyed by both of its phone arguments, and another tool keyed by
\* the tail of a token longer than eight characters.
C11_Witness ==
    /\ position = "keyed"
    /\ \/ /\ invocation.name = "verify_otp"
          /\ {"phone", "country_code"} \subseteq DOMAIN invocation.arguments
          /\ invocation.arguments["phone"] # <<>>
          /\ invocation.arguments["country_code"] # <<>>
       \/ /\ invocation.name = "toggle_visibility"
          /\ "access_token" \in DOMAIN invocation.arguments
          /\ Len(invocation.arguments["access_token"]) > 8

(***************************************************************************)
(* Exceptions, handler outcomes and backend answers.                       *)
(*                                                                         *)
(* An exception is its class and its message.  What a handler does before  *)
(* its await is the exception it raises or the request it hands to         *)
(* api_client.request; what it does after the await is the value it        *)
(* returns or the exception it raises.  A parsed JSON body carries its     *)
(* JSON type, since the handlers behave differently on objects and on      *)
(* other values.                                                           *)
(***************************************************************************)
Exception(class, text) == [class |-> class, message |-> text]

Raise(e) == [kind |-> "raise", exception |-> e]
Return(value) == [kind |-> "return", value |-> value]

\* api_client.request(method=, endpoint=, data=, headers={"Authorization": ...});
\* `model` is the Pydantic request object the handler keeps, if it built one.
Request(method, endpoint, data, authorization, model) ==
    [kind |-> "request", method |-> method, endpoint |-> endpoint, data |-> data,
     authorization |-> authorization, model |-> model]

\* An instance of a response model, or a result dictionary (type "dict").
Result(type, fields) == [type |-> type, fields |-> fields]

JObject(fields) == [json |-> "object", fields |-> fields]
JArray == [json |-> "array"]
JNull == [json |-> "null"]
JBoolean(value) == [json |-> "boolean", value |-> value]
JString(text) == [json |-> "string", text |-> text]

\* result.get(...) on something that is not a dict.
NoGetAttribute == Exception("AttributeError", "object has no attribute 'get'")
\* A Pydantic model rejects the values it is built from.
ValidationError(model) == Exception("ValidationError", model)

\* body.get(key, default) of a JSON object.
FieldOr(body, key, default) ==
    IF key \in DOMAIN body.fields THEN body.fields[key] ELSE default

(***************************************************************************)
(* sign_in (agents/auth.py): validation and normalization.                 *)
(***************************************************************************)
\* re.sub(r"[()\-\s]", "", s)
RemoveSeparators(s) == SelectSeq(s, LAMBDA ch : ch \notin {"(", ")", "-"} /\ ~IsSpace(ch))

\* The most digits the group (\+\d{1,3}) takes.
MaxCodeDigits == 3

\* re.match(r"^(\+\d{1,3})(\d+)$", s): the two groups, or None.  \d{1,3} is
\* greedy: it takes as many digits as it can while leaving one to \d+.
MatchPlusPhone(s) ==
    IF Len(s) >= 3 /\ s[1] = "+" /\ IsDigitStr(Tail(s))
    THEN LET digits == Len(s) - 1
             taken == IF digits - 1 < MaxCodeDigits THEN digits - 1 ELSE MaxCodeDigits
         IN  Some(<<SubSeq(s, 1, 1 + taken), SubSeq(s, 2 + taken, Len(s))>>)
    ELSE None

\* str.lstrip("0")
RECURSIVE LStripZeros(_)
LStripZeros(s) == IF s # <<>> /\ Head(s) = "0" THEN LStripZeros(Tail(s)) ELSE s

\* The phone checks: the exception raised, or the pair <<country_code, raw_phone>>
\* that goes on to the country-code checks.
ProcessPhone(phone, country_code) ==
    LET raw_phone == RemoveSeparators(Strip(phone))
        match == MatchPlusPhone(raw_phone)
    IN  IF StartsWith(raw_phone, <<"+">>)
        THEN IF match = None
             THEN Raise(Exception("ValueError",
                                  "Invalid phone format. Expected '+<code><number>'."))
             ELSE Return(match[1])
        ELSE LET stripped == IF StartsWith(raw_phone, <<"0">>)
                             THEN LStripZeros(raw_phone) ELSE raw_phone
             IN  IF ~IsDigitStr(stripped)
                 THEN Raise(Exception("ValueError",
                                      "Phone must contain digits only, without country code."))
                 ELSE Return(<<country_code, stripped>>)

\* A country-code fix that accepts whatever starts with "+".
FixCountryCodeUnchecked(country_code) ==
    LET code == Strip(country_code)
    IN  Return(IF StartsWith(code, <<"+">>) THEN code ELSE <<"+">> \o code)

\* The country-code checks: the exception raised, or the code with its "+".
FixCountryCode(country_code) ==
    LET code == Strip(country_code)
    IN  IF ~StartsWith(code, <<"+">>) /\ ~IsDigitStr(code)
        THEN Raise(Exception("ValueError",
                 "Country code must be digits or start with '+' followed by digits."))
        ELSE LET prefixed == IF StartsWith(code, <<"+">>) THEN code ELSE <<"+">> \o code
             IN  IF ~IsDigitStr(Tail(prefixed))
                 THEN Raise(Exception("ValueError",
                          "Country code must start with '+' followed by digits."))
                 ELSE Return(prefixed)

\* SignInRequest(...).model_dump(by_alias=True, exclude={"latitude", "longitude"})
SignInPayload(request) ==
    [phone |-> request.phone, countryCode |-> request.countryCode, name |-> request.name,
     location |-> <<request.latitude, request.longitude>>]

\* sign_in up to its await: lines 56-128.
SignIn(arguments) ==
    IF ~(-90 <= arguments.latitude /\ arguments.latitude <= 90)
    THEN Raise(Exception("ValueError", "latitude must be between -90 and 90."))
    ELSE IF ~(-180 <= arguments.longitude /\ arguments.longitude <= 180)
    THEN Raise(Exception("ValueError", "longitude must be between -180 and 180."))
    ELSE LET numbers == ProcessPhone(arguments.phone, arguments.country_code)
         IN  IF numbers.kind = "raise" THEN numbers
             ELSE LET country_code == FixCountryCode(numbers.value[1])
                  IN  IF country_code.kind = "raise" THEN country_code
                      ELSE LET sign_in_request ==
                                   [phone |-> numbers.value[2],
                                    countryCode |-> country_code.value,
                                    name |-> arguments.name,
                                    latitude |-> arguments.latitude,
                                    longitude |-> arguments.longitude]
                           IN  Request("POST", "/twilio/sign-in",
                                       SignInPayload(sign_in_request), None,
                                       Some(sign_in_request))

\* sign_in after its await: lines 130-163.
SignInResult(body) ==
    IF /\ body.json = "object"
       /\ {"message", "user", "success"} \subseteq DOMAIN body.fields
       /\ {"id", "otp"} \subseteq DOMAIN body.fields.user
    THEN Return(Result("SignInResponse",
                       [message |-> body.fields.message, user |-> body.fields.user,
                        success |-> body.fields.success]))
    ELSE IF body.json # "object" THEN Raise(NoGetAttribute)
    ELSE LET user_data == FieldOr(body, "user", EmptyDict)
         IN  IF "otp" \notin DOMAIN user_data THEN Raise(ValidationError("SignInUser"))
             ELSE Return(Result("SignInResponse",
                     [message |-> FieldOr(body, "message", "Sign in successful"),
                      user |-> [id |-> IF "id" \in DOMAIN user_data
                                       THEN user_data.id ELSE "",
                                otp |-> user_data.otp],
                      success |-> FieldOr(body, "success", TRUE)]))

(***************************************************************************)
(* verify_otp and resend_otp (agents/auth.py).                             *)
(***************************************************************************)
\* A user_id check that only refuses ids made of digits.
CheckUserIdDigitsOnly(user_id) ==
    IF user_id = <<>> \/ IsDigitStr(user_id)
    THEN Raise(Exception("ValueError", "Invalid user_id. Must be a non-empty string."))
    ELSE Return(user_id)

\* A user_id check that takes one-character ids for opaque ids.
CheckUserIdLongOnly(user_id) ==
    IF user_id = <<>>
    THEN Raise(Exception("ValueError", "Invalid user_id. Must be a non-empty string."))
    ELSE IF Len(user_id) > 1 /\ (IsDigitStr(user_id) \/ StartsWith(user_id, <<"+">>))
    THEN Raise(Exception("ValueError",
             "user_id looks like a phone number. Please provide valid user_id from sign_in."))
    ELSE Return(user_id)

\* The user_id checks both handlers start with.
CheckUserId(user_id) ==
    IF user_id = <<>>
    THEN Raise(Exception("ValueError", "Invalid user_id. Must be a non-empty string."))
    ELSE IF IsDigitStr(user_id) \/ StartsWith(user_id, <<"+">>)
    THEN Raise(Exception("ValueError",
             "user_id looks like a phone number. Please provide valid user_id from sign_in."))
    ELSE Return(user_id)

\* verify_otp up to its await: lines 190-215.
VerifyOtp(arguments) ==
    LET user_id == CheckUserId(arguments.user_id)
    IN  IF user_id.kind = "raise" THEN user_id
        ELSE IF ~IsDigitStr(arguments.otp_code)
        THEN Raise(Exception("ValueError", "otp_code must contain only digits."))
        ELSE LET verify_otp_request == [id |-> arguments.user_id, otp |-> arguments.otp_code]
             IN  Request("POST", "/twilio/verify-otp", verify_otp_request, None,
                         Some(verify_otp_request))

\* verify_otp after its await: lines 217-249.  The fallback builds a
\* VerifyOtpResponse without its required field success.
VerifyOtpResult(body) ==
    IF /\ body.json = "object"
       /\ {"message", "user", "token", "uploadToken", "success"} \subseteq DOMAIN body.fields
       /\ {"name", "phone", "countryCode", "taxiProvider", "certified"}
            \subseteq DOMAIN body.fields.user
    THEN Return(Result("VerifyOtpResponse",
                       [message |-> body.fields.message, user |-> body.fields.user,
                        token |-> body.fields.token,
                        uploadToken |-> body.fields.uploadToken,
                        success |-> body.fields.success]))
    ELSE IF body.json # "object" THEN Raise(NoGetAttribute)
    ELSE Raise(ValidationError("VerifyOtpResponse"))

\* resend_otp up to its await: lines 272-292.
ResendOtp(arguments) ==
    LET user_id == CheckUserId(arguments.user_id)
    IN  IF user_id.kind = "raise" THEN user_id
        ELSE LET resend_otp_request == [userid |-> arguments.user_id]
             IN  Request("POST", "/twilio/resend-otp", resend_otp_request, None,
                         Some(resend_otp_request))

\* resend_otp after its await: lines 294-315.  The fallback builds a
\* ResendOtpResponse without its required field success.
ResendOtpResult(body) ==
    IF body.json = "object" /\ {"message", "success"} \subseteq DOMAIN body.fields
    THEN Return(Result("ResendOtpResponse",
                       [message |-> body.fields.message, success |-> body.fields.success]))
    ELSE IF body.json # "object" THEN Raise(NoGetAttribute)
    ELSE Raise(ValidationError("ResendOtpResponse"))

\* The except branch of the three handlers: an error response that carries
\* str(e) and the request object, None when it had not been built.
AuthErrorResponse(tool_name, e, model) ==
    Result(CASE tool_name = "sign_in" -> "SignInErrorResponse"
             [] tool_name = "verify_otp" -> "VerifyOtpErrorResponse"
             [] OTHER -> "ResendOtpErrorResponse",
           [success |-> FALSE, error |-> e.message, payload |-> model])

(***************************************************************************)
(* APIClient.request (utils/http_client.py) under tenacity's @retry.       *)
(***************************************************************************)
\* settings.MAX_RETRIES, the argument of stop_after_attempt.
MAX_RETRIES == 3
\* wait_exponential(multiplier=1, min=1, max=10)
WaitMultiplier == 1
WaitMin == 1
WaitMax == 10

\* An attempt: the parsed body of a 2xx answer, or the exception raised by
\* client.request, raise_for_status or response.json.
Success(body) == [ok |-> TRUE, body |-> body]
Failure(e) == [ok |-> FALSE, exception |-> e]

\* httpx.ReadTimeout: no answer within the 30 seconds of the client.
ReadTimeout == Exception("ReadTimeout", "")
\* json.JSONDecodeError: a 2xx answer whose body is not JSON.
JSONDecodeError == Exception("JSONDecodeError", "Expecting value: line 1 column 1 (char 0)")
\* httpx.HTTPStatusError from raise_for_status, with the response it carries.
HTTPStatusError(status_code) ==
    [class |-> "HTTPStatusError",
     message |-> IF status_code < 500 THEN "Client error '400 Bad Request' for url"
                 ELSE "Server error '503 Service Unavailable' for url",
     status_code |-> status_code]

\* wait_exponential: multiplier * 2 ** (attempt_number - 1), kept within
\* [min, max].
WaitExponential(attempt_number) ==
    LET exp == WaitMultiplier * 2 ^ (attempt_number - 1)
        capped == IF exp < WaitMax THEN exp ELSE WaitMax
    IN  IF capped > WaitMin THEN capped ELSE WaitMin

\* A stop condition that allows one attempt more.
StopAfterAttemptLate(attempt_number) == attempt_number > MAX_RETRIES

\* A stop condition that gives up after the first attempt.
StopAfterAttemptFirst(attempt_number) == attempt_number >= 1

\* stop_after_attempt(settings.MAX_RETRIES)
StopAfterAttempt(attempt_number) == attempt_number >= MAX_RETRIES

\* A RetryError built from the first attempt.
RetryErrorOfFirst(outcomes) ==
    [class |-> "RetryError",
     message |-> "RetryError[<Future state=finished raised an exception>]",
     last_attempt |-> outcomes[1]]

\* tenacity raises RetryError(last_attempt) when it stops (no reraise=True):
\* the error wraps the last attempt, and its text names the class of the
\* exception that attempt raised.
RetryError(outcomes) ==
    LET last_attempt == outcomes[Len(outcomes)]
    IN  [class |-> "RetryError",
         message |->
            CASE last_attempt.exception.class = "HTTPStatusError" ->
                    "RetryError[<Future state=finished raised HTTPStatusError>]"
              [] last_attempt.exception.class = "ReadTimeout" ->
                    "RetryError[<Future state=finished raised ReadTimeout>]"
              [] OTHER ->
                    "RetryError[<Future state=finished raised JSONDecodeError>]",
         last_attempt |-> last_attempt]

(***************************************************************************)
(* toggle_visibility and get_user_profile (agents/user.py).                *)
(***************************************************************************)
\* toggle_visibility up to its await: lines 42-54.
ToggleVisibility(arguments) ==
    Request("PUT", "/user", [visible |-> arguments.visible = "true"],
            Some(arguments.access_token), None)

\* get_user_profile up to its await: lines 95-100.
GetUserProfile(arguments) ==
    Request("GET", "/user", None, Some(arguments.access_token), None)

\* UserProfileResponse has the fields success and data and ignores every
\* other keyword it is built with (extra="ignore"), `message` included.
UserProfileResponse(success, data) ==
    Result("UserProfileResponse", [success |-> success, data |-> data])

\* Both handlers after their await: lines 56-64 and 102-116.  `"user" not in
\* result` is a TypeError on None and a plain membership test on a list.
UserProfileResult(body) ==
    IF body.json = "null"
    THEN Raise(Exception("TypeError", "argument of type 'NoneType' is not iterable"))
    ELSE IF body.json # "object" \/ "user" \notin DOMAIN body.fields
    THEN Return(UserProfileResponse(FALSE, None))
    ELSE IF ~({"_id", "name", "phone", "countryCode"} \subseteq DOMAIN body.fields.user)
    THEN Raise(ValidationError("UserProfile"))
    ELSE Return(UserProfileResponse(TRUE, Some(body.fields.user)))

\* The except branch of both handlers: lines 66-75 and 118-123.
UserErrorResponse(e) == UserProfileResponse(FALSE, None)

(***************************************************************************)
(* search_businesses (agents/search.py, utils/helper.py).                  *)
(***************************************************************************)
\* keyword.split("|")[0]
RECURSIVE BeforeBar(_)
BeforeBar(s) ==
    IF s = <<>> \/ Head(s) = "|" THEN <<>> ELSE <<Head(s)>> \o BeforeBar(Tail(s))

\* A sanitizer that keeps the whitespace around the first segment.
SanitizeKeywordUntrimmed(keyword) == BeforeBar(keyword)

\* _sanitize_keyword
SanitizeKeyword(keyword) ==
    IF \E i \in DOMAIN keyword : keyword[i] = "|" THEN Strip(BeforeBar(keyword)) ELSE keyword

\* search_businesses up to its await: lines 62-81.
SearchBusinesses(arguments) ==
    Request("POST", "/searchAround",
            [keyword |-> SanitizeKeyword(arguments.keyword), limit |-> arguments.limit,
             location |-> <<arguments.longitude, arguments.latitude>>, provider |-> TRUE,
             radius |-> arguments.radius, visible |-> TRUE],
            None, None)

\* A rating that counts the likes only and grows without bound.
ComputeFeedbackRatingUnbounded(item) ==
    IF "likes" \in DOMAIN item THEN 250 * Len(item.likes) ELSE 250

\* compute_feedback_rating, in hundredths: round(x, 2) of (likes - dislikes) /
\* total, moved from [-1, 1] to [0, 5].
ComputeFeedbackRating(item) ==
    LET likes == IF "likes" \in DOMAIN item THEN Len(item.likes) ELSE 0
        dislikes == IF "dislikes" \in DOMAIN item THEN Len(item.dislikes) ELSE 0
        total == likes + dislikes
    IN  IF total = 0 THEN 250
        ELSE LET scaled == 500 * likes
                 quotient == scaled \div total
                 twice == 2 * (scaled % total)
             IN  IF twice > total \/ (twice = total /\ quotient % 2 = 1)
                 THEN quotient + 1 ELSE quotient

\* item.get(key, default)
ItemOr(item, key, default) == IF key \in DOMAIN item THEN item[key] ELSE default

\* round(value, 1) of a distance: a number, given in tenths, or a TypeError.
RoundDistance(distance) ==
    IF distance.json = "number" THEN Return(distance.tenths)
    ELSE Raise(Exception("TypeError", "type str doesn't define __round__ method"))

\* A normalization that reads the coordinate pair as [latitude, longitude].
NormalizeMatchingWhistleSwapped(item) ==
    LET distance == RoundDistance(ItemOr(item, "dis", [json |-> "number", tenths |-> 0]))
        location == ItemOr(item, "location", EmptyDict)
        coordinates == ItemOr(location, "coordinates", <<>>)
    IN  IF distance.kind = "raise" THEN distance
        ELSE Return([id |-> ItemOr(item, "_id", ""),
                     name |-> ItemOr(item, "name", ""),
                     phone |-> <<ItemOr(item, "countryCode", ""), " ",
                                 ItemOr(item, "phone", "")>>,
                     address |-> ItemOr(location, "address", ""),
                     distance |-> distance.value,
                     latitude |-> IF coordinates # <<>> THEN coordinates[1] ELSE 0,
                     longitude |-> IF coordinates # <<>> THEN coordinates[2] ELSE 0,
                     rating |-> ComputeFeedbackRating(item)])

\* _normalize_matching_whistle
NormalizeMatchingWhistle(item) ==
    LET distance == RoundDistance(ItemOr(item, "dis", [json |-> "number", tenths |-> 0]))
        location == ItemOr(item, "location", EmptyDict)
        coordinates == ItemOr(location, "coordinates", <<>>)
    IN  IF distance.kind = "raise" THEN distance
        ELSE Return([id |-> ItemOr(item, "_id", ""),
                     name |-> ItemOr(item, "name", ""),
                     phone |-> <<ItemOr(item, "countryCode", ""), " ",
                                 ItemOr(item, "phone", "")>>,
                     address |-> ItemOr(location, "address", ""),
                     distance |-> distance.value,
                     latitude |-> IF coordinates # <<>> THEN coordinates[2] ELSE 0,
                     longitude |-> IF coordinates # <<>> THEN coordinates[1] ELSE 0,
                     rating |-> ComputeFeedbackRating(item)])

\* _normalize_direct_provider
NormalizeDirectProvider(provider_data) ==
    LET distance ==
            RoundDistance(ItemOr(provider_data, "distance", [json |-> "number", tenths |-> 0]))
    IN  IF distance.kind = "raise" THEN distance
        ELSE Return([id |-> ItemOr(provider_data, "id", ItemOr(provider_data, "_id", "")),
                     name |-> ItemOr(provider_data, "name",
                                     ItemOr(provider_data, "title", "")),
                     phone |-> <<ItemOr(provider_data, "countryCode", ""), " ",
                                 ItemOr(provider_data, "phone", "")>>,
                     address |-> ItemOr(provider_data, "address",
                                        ItemOr(provider_data, "location", "")),
                     distance |-> distance.value,
                     latitude |-> ItemOr(provider_data, "latitude",
                                         ItemOr(provider_data, "lat", 0)),
                     longitude |-> ItemOr(provider_data, "longitude",
                                          ItemOr(provider_data, "lng", 0)),
                     rating |-> ComputeFeedbackRating(provider_data)])

\* _extract_providers_data on a dict
ExtractProvidersData(data) ==
    LET providers_data == ItemOr(data, "providers", <<>>)
    IN  IF providers_data = <<>> /\ "matchingWhistles" \in DOMAIN data
        THEN data.matchingWhistles ELSE providers_data

\* _normalize_providers: the list of Provider objects, or the exception the
\* first item that cannot be normalized raises.
RECURSIVE NormalizeAll(_)
NormalizeAll(providers_data) ==
    IF providers_data = <<>> THEN Return(<<>>)
    ELSE LET provider_data == Head(providers_data)
             provider == IF "item" \in DOMAIN provider_data
                         THEN NormalizeMatchingWhistle(provider_data.item)
                         ELSE NormalizeDirectProvider(provider_data)
             others == NormalizeAll(Tail(providers_data))
         IN  IF provider.kind = "raise" THEN provider
             ELSE IF others.kind = "raise" THEN others
             ELSE Return(<<provider.value>> \o others.value)

\* SearchNearMeResponse(...).model_dump()
SearchNearMeResponse(providers, total_count, arguments) ==
    [providers |-> providers, total_count |-> total_count,
     search_radius |-> arguments.radius,
     search_location |-> [latitude |-> arguments.latitude,
                          longitude |-> arguments.longitude]]

\* A response that counts one provider more than it lists.
SearchResultsMiscounted(arguments, body) ==
    IF body.json # "object" THEN Raise(NoGetAttribute)
    ELSE LET providers == NormalizeAll(ExtractProvidersData(body.fields))
         IN  IF providers.kind = "raise" THEN providers
             ELSE Return(Result("dict",
                     SearchNearMeResponse(providers.value, Len(providers.value) + 1,
                                          arguments)))

\* search_businesses after its await: lines 83-103.
SearchResults(arguments, body) ==
    IF body.json # "object" THEN Raise(NoGetAttribute)
    ELSE LET providers == NormalizeAll(ExtractProvidersData(body.fields))
         IN  IF providers.kind = "raise" THEN providers
             ELSE Return(Result("dict",
                     SearchNearMeResponse(providers.value, Len(providers.value), arguments)))

\* The except branch of search_businesses: lines 105-121.
SearchErrorResponse(arguments, e) ==
    Result("dict",
           [k \in {"providers", "total_count", "search_radius", "search_location", "error"} |->
              IF k = "error" THEN <<"Unexpected error: ", e.message>>
              ELSE SearchNearMeResponse(<<>>, 0, arguments)[k]])

(***************************************************************************)
(* create_whistle and list_whistles (agents/whistle.py).  What the         *)
(* extractor returned for user_input is part of the invocation, as the     *)
(* entry `extracted` of its arguments; scores are in hundredths.           *)
(***************************************************************************)
\* Whether datetime.fromisoformat reads the expiry, and where it lies.
ExpiryKind(expiry) ==
    CASE expiry = "never" -> "never"
      [] expiry = "2099-01-01T00:00:00Z" -> "future"
      [] expiry = "2001-01-01T00:00:00Z" -> "past"
      [] OTHER -> "unreadable"

\* The most tags a whistle keeps, and the limits of its alert radius.
MaxTags == 20
MinRadius == 1
MaxRadius == 1000
DefaultRadius == 2

\* WhistleValidator.validate_whistle_data: the errors, the warnings and the
\* data as the validator leaves it.
ValidateWhistleData(data) ==
    LET short == Len(Strip(data.description)) < 5
        no_tags == data.tags = <<>>
        errors ==
            (IF short THEN <<"Description is too short">> ELSE <<>>)
            \o (IF no_tags /\ data.confidence_score > 50
                THEN <<"No services could be identified">> ELSE <<>>)
            \o (IF data.provider = JNull /\ data.confidence_score > 60
                THEN <<"Cannot determine if offering or seeking services">> ELSE <<>>)
            \o (IF ExpiryKind(data.expiry) = "past"
                THEN <<"Expiry date is in the past">> ELSE <<>>)
        warnings ==
            (IF data.alert_radius < MinRadius THEN <<"Alert radius set to minimum (2km)">>
             ELSE IF data.alert_radius > MaxRadius
             THEN <<"Alert radius capped at maximum (1000km)">> ELSE <<>>)
            \o (IF no_tags /\ ~(data.confidence_score > 50)
                THEN <<"Services unclear - may need clarification">>
                ELSE IF Len(data.tags) > MaxTags
                THEN <<"Too many tags - limited to first 20">> ELSE <<>>)
            \o (IF ExpiryKind(data.expiry) = "unreadable"
                THEN <<"Expiry date format unclear - using default">> ELSE <<>>)
    IN  [valid |-> errors = <<>>, errors |-> errors, warnings |-> warnings,
         data |-> [data EXCEPT
                     !.alert_radius = IF @ < MinRadius THEN DefaultRadius
                                      ELSE IF @ > MaxRadius THEN MaxRadius ELSE @,
                     !.tags = IF Len(@) > MaxTags THEN SubSeq(@, 1, MaxTags) ELSE @,
                     !.expiry = IF ExpiryKind(@) = "unreadable" THEN "now + 7 days" ELSE @]]

\* _generate_dynamic_suggestions
GenerateDynamicSuggestions(data, validation_result) ==
    (IF data.confidence_score < 30
     THEN <<"Try rephrasing your request with more specific details">> ELSE <<>>)
    \o (IF data.tags = <<>>
        THEN <<"Please specify the type of service more clearly">> ELSE <<>>)
    \o (IF data.provider = JNull
        THEN <<"Clarify whether you're offering a service or looking for one">> ELSE <<>>)
    \o (IF data.confidence_score < 50 /\ data.tags # <<>>
        THEN <<<<"I detected these services: ", data.tags, ". Is this correct?">>>>
        ELSE <<>>)
    \o [i \in 1..Cardinality({j \in DOMAIN validation_result.errors :
                                validation_result.errors[j] \in
                                    {"No services could be identified",
                                     "Cannot determine if offering or seeking services"}})
          |-> "Try being more specific about the type of help or service involved"]

\* A create_whistle whose force_create waives every reason to ask back.
CreateWhistleForced(arguments) ==
    LET validation_result == ValidateWhistleData(arguments.extracted)
        extracted_data == validation_result.data
        needs_clarification ==
            /\ ~arguments.force_create
            /\ \/ extracted_data.ask_again
               \/ ~validation_result.valid
               \/ extracted_data.confidence_score < arguments.confidence_threshold
    IN  IF needs_clarification
        THEN Return(Result("dict",
                [status |-> "clarification_needed",
                 message |-> IF extracted_data.reason # "" THEN <<extracted_data.reason>>
                             ELSE validation_result.errors,
                 confidence_score |-> extracted_data.confidence_score,
                 extracted_data |-> [description |-> extracted_data.description,
                                     tags |-> extracted_data.tags,
                                     provider |-> extracted_data.provider,
                                     alertRadius |-> extracted_data.alert_radius,
                                     expiry |-> extracted_data.expiry],
                 warnings |-> validation_result.warnings,
                 suggestions |-> GenerateDynamicSuggestions(extracted_data,
                                                            validation_result)]))
        ELSE Request("POST", "/whistle",
                     [whistle |-> [description |-> extracted_data.description,
                                   alertRadius |-> extracted_data.alert_radius,
                                   tags |-> extracted_data.tags,
                                   provider |-> IF extracted_data.provider # JNull
                                                THEN extracted_data.provider
                                                ELSE JBoolean(FALSE),
                                   expiry |-> extracted_data.expiry]],
                     Some(arguments.access_token), None)

\* create_whistle up to its return or its await of the backend: lines 430-479.
CreateWhistle(arguments) ==
    LET validation_result == ValidateWhistleData(arguments.extracted)
        extracted_data == validation_result.data
        needs_clarification ==
            \/ extracted_data.ask_again
            \/ ~validation_result.valid
            \/ (extracted_data.confidence_score < arguments.confidence_threshold
                    /\ ~arguments.force_create)
    IN  IF needs_clarification
        THEN Return(Result("dict",
                [status |-> "clarification_needed",
                 message |-> IF extracted_data.reason # "" THEN <<extracted_data.reason>>
                             ELSE validation_result.errors,
                 confidence_score |-> extracted_data.confidence_score,
                 extracted_data |-> [description |-> extracted_data.description,
                                     tags |-> extracted_data.tags,
                                     provider |-> extracted_data.provider,
                                     alertRadius |-> extracted_data.alert_radius,
                                     expiry |-> extracted_data.expiry],
                 warnings |-> validation_result.warnings,
                 suggestions |-> GenerateDynamicSuggestions(extracted_data,
                                                            validation_result)]))
        ELSE Request("POST", "/whistle",
                     [whistle |-> [description |-> extracted_data.description,
                                   alertRadius |-> extracted_data.alert_radius,
                                   tags |-> extracted_data.tags,
                                   provider |-> IF extracted_data.provider # JNull
                                                THEN extracted_data.provider
                                                ELSE JBoolean(FALSE),
                                   expiry |-> extracted_data.expiry]],
                     Some(arguments.access_token), None)

\* create_whistle after its await: lines 481-514.
CreateWhistleResult(arguments, body) ==
    IF body.json # "object" THEN Raise(NoGetAttribute)
    ELSE IF "newWhistle" \notin DOMAIN body.fields
    THEN Return(Result("dict", [status |-> "error",
                                message |-> "Whistle creation failed - no whistle returned"]))
    ELSE LET new_whistle == body.fields.newWhistle
             validation_result == ValidateWhistleData(arguments.extracted)
             formatted_whistle ==
                [id |-> ItemOr(new_whistle, "_id", ItemOr(new_whistle, "id", None)),
                 description |-> ItemOr(new_whistle, "description", ""),
                 tags |-> ItemOr(new_whistle, "tags", <<>>),
                 alertRadius |-> ItemOr(new_whistle, "alertRadius", 2),
                 expiry |-> ItemOr(new_whistle, "expiry", "never"),
                 provider |-> ItemOr(new_whistle, "provider", FALSE),
                 active |-> ItemOr(new_whistle, "active", TRUE)]
         IN  Return(Result("dict",
                [status |-> "success",
                 whistle |-> formatted_whistle,
                 message |-> <<"Whistle created successfully! ",
                               IF formatted_whistle.provider THEN "Offering" ELSE "Seeking",
                               formatted_whistle.tags>>,
                 confidence_score |-> validation_result.data.confidence_score,
                 warnings |-> validation_result.warnings,
                 matching_whistles |-> ItemOr(body.fields, "matchingWhistles", <<>>)]))

\* `word in text` for the texts str(e) takes in the model: none of them holds
\* "ETLIMIT" or "referral".
Mentions(text, word) == FALSE

\* The except branch of create_whistle: lines 516-535.
CreateWhistleErrorResponse(e) ==
    Result("dict",
           [status |-> "error",
            message |-> IF Mentions(e.message, "ETLIMIT")
                        THEN "Too many tags specified (maximum 20 allowed)"
                        ELSE IF Mentions(e.message, "referral") THEN e.message
                        ELSE "An unexpected error occurred while creating the whistle. Please try again later."])

\* list_whistles up to its await: lines 562-568.
ListWhistles(arguments) ==
    Request("GET", "/user", None, Some(arguments.access_token), None)

\* list_whistles after its await: lines 569-600.
ListWhistlesResult(arguments, body) ==
    IF body.json # "object" THEN Raise(NoGetAttribute)
    ELSE LET user == ItemOr(body.fields, "user", EmptyDict)
             whistles == ItemOr(user, "Whistles", <<>>)
             kept == IF arguments.active_only
                     THEN SelectSeq(whistles, LAMBDA w : ItemOr(w, "active", TRUE))
                     ELSE whistles
         IN  Return(Result("dict",
                [status |-> "success",
                 whistles |->
                    [i \in DOMAIN kept |->
                        [id |-> ItemOr(kept[i], "id", ItemOr(kept[i], "_id", None)),
                         description |-> ItemOr(kept[i], "description", ""),
                         tags |-> ItemOr(kept[i], "tags", <<>>),
                         alertRadius |-> ItemOr(kept[i], "alertRadius", 2),
                         expiry |-> ItemOr(kept[i], "expiry", "never"),
                         provider |-> ItemOr(kept[i], "provider", FALSE),
                         active |-> ItemOr(kept[i], "active", TRUE)]]]))

\* The except branch of list_whistles: lines 602-610.
ListWhistlesErrorResponse(e) ==
    Result("dict",
           [status |-> "error",
            message |-> "An unexpected error occurred while creating the whistle. Please try again later.",
            whistles |-> <<>>])

(***************************************************************************)
(* One handler invocation, step by step.                                   *)
(***************************************************************************)
\* The handler's code before its await.
Prepare(tool_name, arguments) ==
    CASE tool_name = "sign_in" -> SignIn(arguments)
      [] tool_name = "verify_otp" -> VerifyOtp(arguments)
      [] tool_name = "resend_otp" -> ResendOtp(arguments)
      [] tool_name = "toggle_visibility" -> ToggleVisibility(arguments)
      [] tool_name = "get_user_profile" -> GetUserProfile(arguments)
      [] tool_name = "search_businesses" -> SearchBusinesses(arguments)
      [] tool_name = "create_whistle" -> CreateWhistle(arguments)
      [] OTHER -> ListWhistles(arguments)

\* The handler's code after its await, given the parsed body.
Complete(tool_name, arguments, body) ==
    CASE tool_name = "sign_in" -> SignInResult(body)
      [] tool_name = "verify_otp" -> VerifyOtpResult(body)
      [] tool_name = "resend_otp" -> ResendOtpResult(body)
      [] tool_name \in {"toggle_visibility", "get_user_profile"} -> UserProfileResult(body)
      [] tool_name = "search_businesses" -> SearchResults(arguments, body)
      [] tool_name = "create_whistle" -> CreateWhistleResult(arguments, body)
      [] OTHER -> ListWhistlesResult(arguments, body)

\* An except clause that lets everything but ValueError through.
CatchesValueErrorOnly(tool_name, e) == e.class = "ValueError"

\* `except Exception` of every handler: every exception class of the model
\* derives from Exception.
Catches(tool_name, e) ==
    e.class \in {"ValueError", "AttributeError", "TypeError", "ValidationError",
                 "RetryError", "HTTPStatusError", "ReadTimeout", "JSONDecodeError"}

\* The handler's except branch.
HandlerExcept(tool_name, arguments, e, model) ==
    CASE tool_name \in {"sign_in", "verify_otp", "resend_otp"} ->
            AuthErrorResponse(tool_name, e, model)
      [] tool_name \in {"toggle_visibility", "get_user_profile"} -> UserErrorResponse(e)
      [] tool_name = "search_businesses" -> SearchErrorResponse(arguments, e)
      [] tool_name = "create_whistle" -> CreateWhistleErrorResponse(e)
      [] OTHER -> ListWhistlesErrorResponse(e)

\* The handler ends on `outcome`, a Return or a Raise of its try block.
Finish(outcome, model) ==
    LET tool_name == invocation.name
    IN  /\ position' = "returned"
        /\ IF outcome.kind = "return"
           THEN returned' = Some(outcome.value) /\ escaped' = FALSE
           ELSE IF Catches(tool_name, outcome.exception)
           THEN /\ returned' = Some(HandlerExcept(tool_name, invocation.arguments,
                                                  outcome.exception, model))
                /\ escaped' = FALSE
           ELSE returned' = None /\ escaped' = TRUE

\* The handler runs from its first statement to its return or to its await
\* of api_client.request.
Handle ==
    /\ position = "called"
    /\ LET start == Prepare(invocation.name, invocation.arguments)
       IN  IF start.kind = "request"
           THEN /\ position' = "attempt"
                /\ UNCHANGED <<returned, escaped>>
           ELSE Finish(start, None)
    /\ UNCHANGED <<invocation, attempts, sleeps, requests, raised, derived_key>>
    /\ UNCHANGED vars

\* One attempt of APIClient.request: the HTTP request goes out and `outcome`
\* comes back.  A success resumes the handler, which runs to its return; a
\* failure is retried unless the stop condition holds, and then RetryError
\* is raised into the handler.
Attempt(outcome) ==
    /\ position = "attempt"
    /\ LET request == Prepare(invocation.name, invocation.arguments)
           outcomes == Append(attempts, outcome)
       IN  /\ requests' = Append(requests, [method |-> request.method,
                                            endpoint |-> request.endpoint,
                                            data |-> request.data,
                                            authorization |-> request.authorization])
           /\ attempts' = outcomes
           /\ IF outcome.ok
              THEN /\ Finish(Complete(invocation.name, invocation.arguments, outcome.body),
                             request.model)
                   /\ UNCHANGED raised
              ELSE IF StopAfterAttempt(Len(outcomes))
              THEN /\ raised' = Some(RetryError(outcomes))
                   /\ Finish(Raise(RetryError(outcomes)), request.model)
              ELSE /\ position' = "sleep"
                   /\ UNCHANGED <<raised, returned, escaped>>
    /\ UNCHANGED <<invocation, sleeps, derived_key>>
    /\ UNCHANGED vars

\* tenacity sleeps before the next attempt.
Sleep ==
    /\ position = "sleep"
    /\ sleeps' = Append(sleeps, WaitExponential(Len(attempts)))
    /\ position' = "attempt"
    /\ UNCHANGED <<invocation, attempts, requests, raised, returned, escaped, derived_key>>
    /\ UNCHANGED vars

(***************************************************************************)
(* The three OTP handlers on generated inputs.                             *)
(***************************************************************************)
\* Longest generated phone and longest generated user_id.
MaxPhoneLen == 3
MaxIdLen == 3

\* All strings over `alphabet` of length at most n.
Strings(alphabet, n) == UNION {[1..k -> alphabet] : k \in 0..n}

\* Phones: every short string of digits, "+", separators and a letter, and the
\* longer ones callers are told to send.
PhoneChars == {"+", "0", "7", "-", " ", "a"}
PhoneNational == <<"(", "9", "9", "9", ")", " ", "4", "0", "7", "-", "6", "2", "1", "4">>
PhoneInternational == <<"+", "1", "5", "5", "5", "1", "2", "3", "4", "5", "6", "7">>
Phones == Strings(PhoneChars, MaxPhoneLen) \cup {PhoneNational, PhoneInternational}

CountryCodes ==
    {<<"9", "1">>, <<"+", "9", "1">>, <<" ", "1", " ">>, <<>>, <<"+">>, <<"u", "s">>,
     <<"+", "1", "a">>, <<"+", "+", "1">>}

Latitudes == {-91, -90, 0, 90, 91}
Longitudes == {-181, -180, 0, 180, 181}

SignInCalls ==
    {[name |-> "sign_in",
      arguments |-> [phone |-> phone, country_code |-> country_code, name |-> "Ann",
                     latitude |-> 0, longitude |-> 0]] :
        phone \in Phones, country_code \in CountryCodes}
    \cup
    {[name |-> "sign_in",
      arguments |-> [phone |-> PhoneNational, country_code |-> <<"9", "1">>, name |-> "Ann",
                     latitude |-> latitude, longitude |-> longitude]] :
        latitude \in Latitudes, longitude \in Longitudes}

UserIds == Strings({"+", "1", "u"}, MaxIdLen)
OtpCodes == {<<"1", "2", "3", "4", "5", "6">>, <<"1", "2", "a", "4">>, <<>>}

OtpCalls ==
    {[name |-> "verify_otp", arguments |-> [otp_code |-> otp_code, user_id |-> user_id]] :
        otp_code \in OtpCodes, user_id \in UserIds}
    \cup {[name |-> "resend_otp", arguments |-> [user_id |-> user_id]] : user_id \in UserIds}

\* The body the backend answers an accepted request with.
GoodBody(tool_name) ==
    CASE tool_name = "sign_in" ->
            JObject([message |-> "OTP sent", success |-> TRUE,
                     user |-> [id |-> "u1", otp |-> "123456"]])
      [] tool_name = "verify_otp" ->
            JObject([message |-> "verified", success |-> TRUE, token |-> "t", uploadToken |-> "ut",
                     user |-> [name |-> "Ann", phone |-> "5551234567", countryCode |-> "+1",
                               taxiProvider |-> FALSE, certified |-> FALSE]])
      [] OTHER -> JObject([message |-> "OTP resent", success |-> TRUE])

InitValidate == PipelineInit(EmptyDict) /\ Called(SignInCalls \cup OtpCalls)

\* The backend accepts the request or does not answer in time.
NextValidate ==
    \/ Handle
    \/ \E outcome \in {Success(GoodBody(invocation.name)), Failure(ReadTimeout)} :
            Attempt(outcome)
    \/ Sleep

SpecValidate == InitValidate /\ [][NextValidate]_<<vars, hvars>>

(***************************************************************************)
(* Every handler under every behaviour of the backend.                     *)
(***************************************************************************)
\* "fix my tap"
UserInput == <<"f", "i", "x", " ", "m", "y", " ", "t", "a", "p">>

\* What the extractor returns: a clear request, the same one with a low
\* score, and its answer when no OpenAI key is configured.
ExtractedClear ==
    [description |-> UserInput, alert_radius |-> 2, tags |-> <<"plumbing">>,
     provider |-> JBoolean(FALSE), expiry |-> "never", ask_again |-> FALSE, reason |-> "",
     confidence_score |-> 90]
ExtractedUnsure == [ExtractedClear EXCEPT !.confidence_score = 40]
ExtractedNoKey ==
    [description |-> UserInput, alert_radius |-> 2, tags |-> <<>>, provider |-> JNull,
     expiry |-> "never", ask_again |-> TRUE,
     reason |-> "OpenAI API key not configured. Please set OPENAI_API_KEY environment variable.",
     confidence_score |-> 0]

ToolCalls ==
    {[name |-> "sign_in",
      arguments |-> [phone |-> PhoneNational, country_code |-> <<"9", "1">>, name |-> "Ann",
                     latitude |-> latitude, longitude |-> 0]] : latitude \in {0, 91}}
    \cup {[name |-> "verify_otp",
           arguments |-> [otp_code |-> otp_code, user_id |-> <<"u", "1">>]] :
             otp_code \in {<<"1", "2", "3", "4", "5", "6">>, <<"1", "2", "a", "4">>}}
    \cup {[name |-> "resend_otp", arguments |-> [user_id |-> user_id]] :
             user_id \in OtpUserIds}
    \cup {[name |-> "toggle_visibility",
           arguments |-> [access_token |-> TokBearer, visible |-> visible]] :
             visible \in {"true", "false"}}
    \cup {[name |-> "get_user_profile", arguments |-> [access_token |-> TokBearer]]}
    \cup {[name |-> "search_businesses",
           arguments |-> [latitude |-> 12, longitude |-> 77, radius |-> 10,
                          keyword |-> keyword, limit |-> 10]] :
             keyword \in {<<>>, <<"c", "a", "b", " ", "|", "b", "u", "s">>}}
    \cup {[name |-> "create_whistle",
           arguments |-> [user_input |-> UserInput, access_token |-> TokBearer,
                          confidence_threshold |-> 60, force_create |-> force_create,
                          extracted |-> extracted]] :
             force_create \in BOOLEAN,
             extracted \in {ExtractedClear, ExtractedUnsure, ExtractedNoKey}}
    \cup {[name |-> "list_whistles",
           arguments |-> [access_token |-> TokBearer, active_only |-> active_only]] :
             active_only \in BOOLEAN}

\* Entries of a search answer: two providers in the direct format, one in the
\* matchingWhistles format, and one whose distance is a string.
ProviderJoe ==
    [id |-> "p1", name |-> "Joe", countryCode |-> "+1", phone |-> "5550001",
     address |-> "1 Main St", distance |-> [json |-> "number", tenths |-> 12],
     latitude |-> 12, longitude |-> 77, likes |-> <<"a", "b">>, dislikes |-> <<"c">>]
ProviderSue ==
    [_id |-> "p2", title |-> "Sue", countryCode |-> "+91", phone |-> "9990002",
     location |-> "2 High St", distance |-> [json |-> "number", tenths |-> 30],
     lat |-> 13, lng |-> 78]
ProviderFar == [ProviderJoe EXCEPT !.distance = [json |-> "string", text |-> "far"]]
WhistleKim ==
    [item |-> [_id |-> "w1", name |-> "Kim", countryCode |-> "+1", phone |-> "5550003",
               location |-> [address |-> "3 Low St", coordinates |-> <<77, 12>>],
               dis |-> [json |-> "number", tenths |-> 5], likes |-> <<"a">>]]

UserAnn ==
    [_id |-> "u1", name |-> "Ann", phone |-> "5551234567", countryCode |-> "+1",
     Whistles |-> <<[id |-> "w1", description |-> "fix my tap", active |-> TRUE],
                    [_id |-> "w2", tags |-> <<"piano">>, active |-> FALSE]>>]

\* The bodies a 2xx answer to the handler's request may parse to: the one the
\* handler expects, objects that lack part of it, and values that are not
\* objects.
Bodies(tool_name) ==
    CASE tool_name = "sign_in" ->
            {GoodBody(tool_name),
             JObject([message |-> "OTP sent", user |-> [id |-> "u1", otp |-> "123456"]]),
             JObject([message |-> "OTP sent"]), JArray}
      [] tool_name = "verify_otp" ->
            {GoodBody(tool_name), JObject([message |-> "verified", token |-> "t"]), JArray}
      [] tool_name = "resend_otp" ->
            {GoodBody(tool_name), JObject([message |-> "OTP resent"]), JNull}
      [] tool_name \in {"toggle_visibility", "get_user_profile"} ->
            {JObject([user |-> UserAnn]), JObject([user |-> [name |-> "Ann"]]),
             JObject([message |-> "no such user"]), JArray, JNull}
      [] tool_name = "search_businesses" ->
            {JObject([providers |-> <<ProviderJoe, ProviderSue>>]),
             JObject([providers |-> <<>>, matchingWhistles |-> <<WhistleKim>>]),
             JObject([providers |-> <<ProviderJoe, ProviderFar>>]),
             JObject([results |-> <<>>]), JArray}
      [] tool_name = "create_whistle" ->
            {JObject([newWhistle |-> [_id |-> "w9", description |-> "fix my tap",
                                      tags |-> <<"plumbing">>, provider |-> FALSE],
                      matchingWhistles |-> <<>>]),
             JObject([message |-> "created"]), JArray}
      [] OTHER ->
            {JObject([user |-> UserAnn]), JObject([message |-> "no such user"]), JNull}

\* What one attempt may end in: no answer in time, a 400, a 503, a 2xx answer
\* that is not JSON, or a 2xx answer with one of the bodies.
Outcomes(tool_name) ==
    {Failure(ReadTimeout), Failure(HTTPStatusError(400)), Failure(HTTPStatusError(503)),
     Failure(JSONDecodeError)}
    \cup {Success(body) : body \in Bodies(tool_name)}

InitTools == PipelineInit(EmptyDict) /\ Called(ToolCalls)

NextTools ==
    \/ Handle
    \/ \E outcome \in Outcomes(invocation.name) : Attempt(outcome)
    \/ Sleep

SpecTools == InitTools /\ [][NextTools]_<<vars, hvars>>

\* The retry loop on its own: calls of four of the tools, and per attempt one
\* of the four failures or one 2xx answer.
RetryCalls ==
    {call \in ToolCalls :
        call.name \in {"sign_in", "resend_otp", "get_user_profile", "list_whistles"}}

RetryOutcomes ==
    {Failure(ReadTimeout), Failure(HTTPStatusError(400)), Failure(HTTPStatusError(503)),
     Failure(JSONDecodeError), Success(JObject([message |-> "done"]))}

InitRetry == PipelineInit(EmptyDict) /\ Called(RetryCalls)

NextRetry ==
    \/ Handle
    \/ \E outcome \in RetryOutcomes : Attempt(outcome)
    \/ Sleep

\* The handler moves on: every step of NextRetry changes `position`, and a
\* handler that has not returned can take one.
Advance ==
    /\ position # "returned"
    /\ position' \in {"attempt", "sleep", "returned"}
    /\ position' # position

\* The event loop runs whatever can run: the handler, the HTTP exchange (which
\* httpx ends once its 30-second timeout expires) and the sleep of tenacity all
\* come to an end.
SpecRetry == InitRetry /\ [][NextRetry]_<<vars, hvars>> /\ WF_position(Advance)

(***************************************************************************)
(* Vocabulary of the handler properties.                                   *)
(***************************************************************************)
\* A text without parentheses, hyphens and whitespace.
WithoutSeparators(s) == SelectSeq(s, LAMBDA ch : ch \notin {"(", ")", "-", " ", "\t"})

\* A non-empty text of the digits 0 to 9.
AllDigits(s) ==
    /\ Len(s) > 0
    /\ \A i \in DOMAIN s : s[i] \in {"0", "1", "2", "3", "4", "5", "6", "7", "8", "9"}

\* The handler has returned an error response.
ReturnedError ==
    /\ position = "returned"
    /\ returned # None
    /\ returned[1].type \in {"SignInErrorResponse", "VerifyOtpErrorResponse",
                             "ResendOtpErrorResponse"}

(***************************************************************************)
(* C12.  When the phone given to sign_in starts with "+", the request sent *)
(* to the backend carries the country code embedded in the phone, whatever *)
(* the country_code argument: countryCode and phone together are the phone *)
(* given, and phone "+15551234567" is sent as countryCode "+1" and phone   *)
(* "5551234567".                                                           *)
(***************************************************************************)
C12_EmbeddedCountryCode ==
    \A i \in DOMAIN requests :
        (invocation.name = "sign_in" /\ invocation.arguments.phone # <<>>
            /\ invocation.arguments.phone[1] = "+") =>
            LET data == requests[i].data
            IN  /\ data.countryCode \o data.phone
                      = WithoutSeparators(invocation.arguments.phone)
                /\ invocation.arguments.phone
                      = <<"+", "1", "5", "5", "5", "1", "2", "3", "4", "5", "6", "7">> =>
                        /\ data.countryCode = <<"+", "1">>
                        /\ data.phone = <<"5", "5", "5", "1", "2", "3", "4", "5", "6", "7">>

(***************************************************************************)
(* C13.  Every request sign_in sends to the backend has a phone made of    *)
(* digits only and a countryCode made of "+" followed by digits only,      *)
(* whatever phone and country_code were given; phone "(999) 407-6214" with *)
(* country_code "91" is sent as phone "9994076214", countryCode "+91".     *)
(***************************************************************************)
C13_PayloadDigitsOnly ==
    \A i \in DOMAIN requests :
        invocation.name = "sign_in" =>
            LET data == requests[i].data
            IN  /\ AllDigits(data.phone)
                /\ Len(data.countryCode) >= 2
                /\ data.countryCode[1] = "+"
                /\ AllDigits(SubSeq(data.countryCode, 2, Len(data.countryCode)))
                /\ (/\ invocation.arguments.phone
                         = <<"(", "9", "9", "9", ")", " ", "4", "0", "7", "-", "6", "2", "1", "4">>
                    /\ invocation.arguments.country_code = <<"9", "1">>) =>
                        /\ data.phone = <<"9", "9", "9", "4", "0", "7", "6", "2", "1", "4">>
                        /\ data.countryCode = <<"+", "9", "1">>

\* The request for "(999) 407-6214" with "91" has gone out, or one for a phone
\* that had leading zeros and separators to lose.
C13_Witness ==
    /\ invocation.name = "sign_in"
    /\ requests # <<>>
    /\ \/ /\ invocation.arguments.phone
               = <<"(", "9", "9", "9", ")", " ", "4", "0", "7", "-", "6", "2", "1", "4">>
          /\ invocation.arguments.country_code = <<"9", "1">>
       \/ /\ invocation.arguments.phone = <<"0", "-", "7">>
          /\ invocation.arguments.country_code = <<" ", "1", " ">>

(***************************************************************************)
(* C14.  sign_in, verify_otp and resend_otp send nothing to the backend    *)
(* when their arguments fail validation (a latitude outside [-90, 90], a   *)
(* longitude outside [-180, 180], a phone or a country code of the wrong   *)
(* format, an empty or phone-like user_id, an otp_code that is not made of *)
(* digits): the call returns an error response.                            *)
(***************************************************************************)
\* A phone of the right format: once its separators are gone, "+" and at
\* least two digits, or digits that are not all zeros.
PhoneFormatOk(phone) ==
    LET bare == WithoutSeparators(phone)
    IN  IF bare # <<>> /\ bare[1] = "+"
        THEN Len(bare) >= 3 /\ AllDigits(SubSeq(bare, 2, Len(bare)))
        ELSE AllDigits(bare) /\ \E i \in DOMAIN bare : bare[i] # "0"

\* A country code of the right format: digits, with or without a leading "+",
\* possibly surrounded by blanks.
CountryCodeFormatOk(country_code) ==
    \E i, j \in DOMAIN country_code :
        /\ i <= j
        /\ \A k \in DOMAIN country_code : (k < i \/ k > j) => country_code[k] \in {" ", "\t"}
        /\ LET code == SubSeq(country_code, i, j)
           IN  \/ AllDigits(code)
               \/ code[1] = "+" /\ AllDigits(SubSeq(code, 2, Len(code)))

\* A user_id that is empty or looks like a phone number.
PhoneLikeOrEmpty(user_id) == user_id = <<>> \/ AllDigits(user_id) \/ user_id[1] = "+"

\* The arguments of the invocation fail validation.
ArgumentsInvalid ==
    LET arguments == invocation.arguments
    IN  CASE invocation.name = "sign_in" ->
                \/ arguments.latitude < -90 \/ arguments.latitude > 90
                \/ arguments.longitude < -180 \/ arguments.longitude > 180
                \/ ~PhoneFormatOk(arguments.phone)
                \/ /\ WithoutSeparators(arguments.phone)[1] # "+"
                   /\ ~CountryCodeFormatOk(arguments.country_code)
          [] invocation.name = "verify_otp" ->
                PhoneLikeOrEmpty(arguments.user_id) \/ ~AllDigits(arguments.otp_code)
          [] invocation.name = "resend_otp" -> PhoneLikeOrEmpty(arguments.user_id)
          [] OTHER -> FALSE

C14_InvalidArgumentsNoRequest ==
    ArgumentsInvalid =>
        /\ requests = <<>>
        /\ position \in {"called", "returned"}
        /\ position = "returned" => ReturnedError

\* verify_otp with a proper user_id and an otp_code holding a letter has
\* returned its error.
C14_Witness ==
    /\ invocation.name = "verify_otp"
    /\ invocation.arguments.user_id = <<"u", "1">>
    /\ invocation.arguments.otp_code = <<"1", "2", "a", "4">>
    /\ ReturnedError
    /\ requests = <<>>

(***************************************************************************)
(* C15.  verify_otp and resend_otp reject every user_id that is made of    *)
(* digits only or starts with "+", of any length, and send nothing for it; *)
(* no other non-empty user_id is refused by the user_id check.             *)
(***************************************************************************)
\* The handler has returned one of the errors of the user_id check.
RefusedUserId ==
    /\ ReturnedError
    /\ requests = <<>>
    /\ returned[1].fields.error \in
          {"Invalid user_id. Must be a non-empty string.",
           "user_id looks like a phone number. Please provide valid user_id from sign_in."}

C15_PhoneLikeUserIdRejected ==
    (invocation.name \in {"verify_otp", "resend_otp"} /\ position # "called") =>
        LET user_id == invocation.arguments.user_id
        IN  IF user_id = <<>> THEN RefusedUserId
            ELSE IF AllDigits(user_id) \/ user_id[1] = "+"
            THEN /\ RefusedUserId
                 /\ returned[1].fields.error =
                      "user_id looks like a phone number. Please provide valid user_id from sign_in."
            ELSE ~RefusedUserId

\* resend_otp has refused a three-digit user_id, or one of "+" and a letter.
C15_Witness ==
    /\ invocation.name = "resend_otp"
    /\ invocation.arguments.user_id \in {<<"1", "1", "1">>, <<"+", "u">>}
    /\ RefusedUserId

(***************************************************************************)
(* C16.  No exception leaves a tool handler: whether its arguments fail    *)
(* validation, the backend answers with a non-2xx status, does not answer  *)
(* in time, the retries are exhausted or the payload is malformed, the     *)
(* invocation returns a well-formed result object.                         *)
(***************************************************************************)
\* The result objects the tools declare.
WellFormed(value) ==
    CASE value.type \in {"SignInResponse"} ->
            DOMAIN value.fields = {"message", "user", "success"}
      [] value.type = "VerifyOtpResponse" ->
            DOMAIN value.fields = {"message", "user", "token", "uploadToken", "success"}
      [] value.type = "ResendOtpResponse" -> DOMAIN value.fields = {"message", "success"}
      [] value.type \in {"SignInErrorResponse", "VerifyOtpErrorResponse",
                         "ResendOtpErrorResponse"} ->
            /\ DOMAIN value.fields = {"success", "error", "payload"}
            /\ value.fields.success = FALSE
      [] value.type = "UserProfileResponse" ->
            /\ DOMAIN value.fields = {"success", "data"}
            /\ value.fields.success \in BOOLEAN
      [] value.type = "dict" ->
            \/ {"providers", "total_count", "search_radius", "search_location"}
                  \subseteq DOMAIN value.fields
            \/ /\ {"status", "message"} \subseteq DOMAIN value.fields
               /\ value.fields.status \in {"success", "clarification_needed", "error"}
            \/ /\ {"status", "whistles"} \subseteq DOMAIN value.fields
               /\ value.fields.status \in {"success", "error"}
      [] OTHER -> FALSE

C16_NoExceptionEscapes ==
    /\ ~escaped
    /\ position = "returned" => (returned # None /\ WellFormed(returned[1]))

\* create_whistle has returned after its three attempts all timed out.
C16_Witness ==
    /\ invocation.name = "create_whistle"
    /\ position = "returned"
    /\ returned # None
    /\ Len(attempts) = 3
    /\ \A i \in DOMAIN attempts :
          ~attempts[i].ok /\ attempts[i].exception.class = "ReadTimeout"

(***************************************************************************)
(* C17.  A backend call makes at most MAX_RETRIES = 3 HTTP attempts and    *)
(* then ends, whatever the backend does: no attempt follows a success, the *)
(* call ends either with a successful attempt and no error or with an      *)
(* error raised after the third failed attempt, every wait between two     *)
(* attempts lasts between 1 and 10 seconds, and every invocation           *)
(* eventually returns.                                                     *)
(***************************************************************************)
AttemptsBounded ==
    /\ Len(attempts) <= 3
    /\ Len(requests) = Len(attempts)
    /\ \A i \in DOMAIN attempts : i < Len(attempts) => ~attempts[i].ok
    /\ Len(sleeps) <= Len(attempts)
    /\ \A i \in DOMAIN sleeps : 1 <= sleeps[i] /\ sleeps[i] <= 10
    /\ raised # None => (position = "returned" /\ Len(attempts) = 3)
    /\ (position = "returned" /\ attempts # <<>>) =>
          \/ attempts[Len(attempts)].ok /\ raised = None
          \/ /\ Len(attempts) = 3
             /\ \A i \in DOMAIN attempts : ~attempts[i].ok
             /\ raised # None

C17_BoundedRetry == []AttemptsBounded /\ <>(position = "returned")

\* The third attempt succeeded after two failures and two waits.
C17_Witness ==
    /\ position = "returned"
    /\ Len(attempts) = 3
    /\ attempts[3].ok
    /\ sleeps = <<1, 2>>
    /\ raised = None

\* What the handler of the current invocation returns when the attempts of
\* its backend call end in `outcomes`, all of them failures.
ResultAfterFailures(outcomes) ==
    HandlerExcept(invocation.name, invocation.arguments, RetryError(outcomes),
                  Prepare(invocation.name, invocation.arguments).model)

AllTimedOut ==
    /\ position = "returned"
    /\ Len(attempts) = 3
    /\ \A i \in DOMAIN attempts : attempts[i] = Failure(ReadTimeout)

(***************************************************************************)
(* C18.  The result of a tool call whose backend request timed out (on     *)
(* every attempt) differs from the result the same call has when the       *)
(* backend rejects the request with a non-2xx status (400 or 503).         *)
(***************************************************************************)
C18_TimeoutDistinguishable ==
    AllTimedOut =>
        \A status_code \in {400, 503} :
            returned[1] # ResultAfterFailures(<<Failure(HTTPStatusError(status_code)),
                                                Failure(HTTPStatusError(status_code)),
                                                Failure(HTTPStatusError(status_code))>>)

(***************************************************************************)
(* C19.  An error reaches the handler from its backend call only when all  *)
(* three attempts have failed, hence after the last one, and that error    *)
(* wraps the last attempt: the exception attached to it is the one the     *)
(* third attempt raised, with its status code and message.                 *)
(***************************************************************************)
C19_LastErrorAttached ==
    raised # None =>
        /\ Len(attempts) = 3
        /\ \A i \in DOMAIN attempts : ~attempts[i].ok
        /\ position = "returned"
        /\ raised[1].class = "RetryError"
        /\ raised[1].last_attempt.exception = attempts[3].exception

\* The first attempt timed out, the second was answered with 400 and the
\* third with 503: the error holds the 503 and its message.
C19_Witness ==
    /\ raised # None
    /\ Len(attempts) = 3
    /\ attempts[1] = Failure(ReadTimeout)
    /\ attempts[2] = Failure(HTTPStatusError(400))
    /\ raised[1].last_attempt.exception.class = "HTTPStatusError"
    /\ raised[1].last_attempt.exception.status_code = 503
    /\ raised[1].last_attempt.exception.message
          = "Server error '503 Service Unavailable' for url"

\* The backend call of the invocation raised, or it was answered with a body
\* the normalization cannot read: not a JSON object, or an object one of
\* whose providers has a distance that is not a number.
SearchRaised ==
    \/ raised # None
    \/ /\ attempts # <<>>
       /\ attempts[Len(attempts)].ok
       /\ LET body == attempts[Len(attempts)].body
          IN  \/ body.json # "object"
              \/ /\ "providers" \in DOMAIN body.fields
                 /\ \E i \in DOMAIN body.fields.providers :
                       /\ "distance" \in DOMAIN body.fields.providers[i]
                       /\ body.fields.providers[i].distance.json # "number"

(***************************************************************************)
(* C20.  search_businesses never fails fatally: an invocation that has     *)
(* returned holds a result and no exception left the handler; when the     *)
(* backend call or the normalization of the answer raised, the result has  *)
(* providers = [], total_count = 0 and an error string, and otherwise it   *)
(* has no error entry; in every result total_count is the number of        *)
(* providers listed.                                                       *)
(***************************************************************************)
C20_SearchNeverFatal ==
    invocation.name = "search_businesses" =>
        /\ ~escaped
        /\ position = "returned" =>
              /\ returned # None
              /\ LET fields == returned[1].fields
                 IN  /\ fields.total_count = Len(fields.providers)
                     /\ SearchRaised <=> "error" \in DOMAIN fields
                     /\ SearchRaised =>
                           /\ fields.providers = <<>>
                           /\ fields.total_count = 0
                           /\ Len(fields.error) = 2
                           /\ fields.error[1] = "Unexpected error: "

\* A search was answered with two providers, the second with the distance
\* "far": the result lists no provider and carries the error.
C20_Witness ==
    /\ invocation.name = "search_businesses"
    /\ position = "returned"
    /\ raised = None
    /\ attempts[Len(attempts)].body = JObject([providers |-> <<ProviderJoe, ProviderFar>>])
    /\ returned[1].fields.providers = <<>>
    /\ "error" \in DOMAIN returned[1].fields

(***************************************************************************)
(* search_businesses on its own: keywords over a small alphabet, and       *)
(* answers that list the same provider data in each of the upstream        *)
(* shapes.                                                                 *)
(***************************************************************************)
\* The longest keyword tried and the most likes (and dislikes) of a provider.
MaxKeywordLen == 3
MaxFeedback == 3

\* What a provider entry may say: each of these is present or missing.
ProviderFacts == {"id", "name", "phone", "address", "distance", "position"}

\* Provider data: which facts the entry states, how many likes and dislikes
\* it lists, and whether its distance is the text "far" instead of a number.
ProviderData ==
    {[present |-> present, likes |-> 2, dislikes |-> 1, far |-> FALSE] :
        present \in SUBSET ProviderFacts}
    \cup {[present |-> ProviderFacts, likes |-> likes, dislikes |-> dislikes, far |-> FALSE] :
            likes \in 0..MaxFeedback, dislikes \in 0..MaxFeedback}
    \cup {[present |-> ProviderFacts, likes |-> 0, dislikes |-> 0, far |-> TRUE]}

\* The lists of provider data an answer carries: none, one, or two entries.
ProviderLists ==
    {<<>>} \cup {<<datum>> : datum \in ProviderData}
    \cup {<<first, second>> :
            first \in {datum \in ProviderData : datum.present \in {{}, ProviderFacts}},
            second \in {datum \in ProviderData :
                          datum.present = ProviderFacts /\ datum.likes = datum.dislikes}}

Feedback(n) == [i \in 1..n |-> "u"]
Pick(keys, full) == [k \in keys |-> full[k]]
DistanceOf(datum) ==
    IF datum.far THEN [json |-> "string", text |-> "far"]
    ELSE [json |-> "number", tenths |-> 12]
FeedbackKeys(datum) ==
    (IF datum.likes > 0 THEN {"likes"} ELSE {})
    \cup (IF datum.dislikes > 0 THEN {"dislikes"} ELSE {})

\* The entry in the direct format with the keys id, name, address, latitude
\* and longitude.
AsDirect(datum) ==
    Pick((datum.present \ {"position"})
            \cup (IF "phone" \in datum.present THEN {"countryCode"} ELSE {})
            \cup (IF "position" \in datum.present THEN {"latitude", "longitude"} ELSE {})
            \cup FeedbackKeys(datum),
         [id |-> "p1", name |-> "Joe", countryCode |-> "+1", phone |-> "5550001",
          address |-> "1 Main St", distance |-> DistanceOf(datum),
          latitude |-> 12, longitude |-> 77,
          likes |-> Feedback(datum.likes), dislikes |-> Feedback(datum.dislikes)])

\* The entry in the direct format with the keys _id, title, location, lat
\* and lng.
AsAlternate(datum) ==
    Pick((datum.present \cap {"phone", "distance"})
            \cup (IF "id" \in datum.present THEN {"_id"} ELSE {})
            \cup (IF "name" \in datum.present THEN {"title"} ELSE {})
            \cup (IF "address" \in datum.present THEN {"location"} ELSE {})
            \cup (IF "phone" \in datum.present THEN {"countryCode"} ELSE {})
            \cup (IF "position" \in datum.present THEN {"lat", "lng"} ELSE {})
            \cup FeedbackKeys(datum),
         [_id |-> "p1", title |-> "Joe", countryCode |-> "+1", phone |-> "5550001",
          location |-> "1 Main St", distance |-> DistanceOf(datum),
          lat |-> 12, lng |-> 77,
          likes |-> Feedback(datum.likes), dislikes |-> Feedback(datum.dislikes)])

\* The entry in the matchingWhistles format: an "item" with _id, name, dis
\* and a location that holds the address and the [longitude, latitude] pair.
AsWhistle(datum) ==
    [item |->
        Pick((datum.present \cap {"name", "phone"})
                \cup (IF "id" \in datum.present THEN {"_id"} ELSE {})
                \cup (IF "phone" \in datum.present THEN {"countryCode"} ELSE {})
                \cup (IF "distance" \in datum.present THEN {"dis"} ELSE {})
                \cup (IF datum.present \cap {"address", "position"} # {}
                      THEN {"location"} ELSE {})
                \cup FeedbackKeys(datum),
             [_id |-> "p1", name |-> "Joe", countryCode |-> "+1", phone |-> "5550001",
              location |->
                 Pick((IF "address" \in datum.present THEN {"address"} ELSE {})
                         \cup (IF "position" \in datum.present THEN {"coordinates"} ELSE {}),
                      [address |-> "1 Main St", coordinates |-> <<77, 12>>]),
              dis |-> DistanceOf(datum),
              likes |-> Feedback(datum.likes), dislikes |-> Feedback(datum.dislikes)])]

Shapes == {"direct", "alternate", "whistle"}

\* The answer of /searchAround that lists `data` in the given shape.
Payload(shape, data) ==
    IF shape = "whistle"
    THEN JObject([matchingWhistles |-> [i \in DOMAIN data |-> AsWhistle(data[i])]])
    ELSE JObject([providers |-> [i \in DOMAIN data |->
                                    IF shape = "direct" THEN AsDirect(data[i])
                                    ELSE AsAlternate(data[i])]])

Keywords == Strings({"a", " ", "|"}, MaxKeywordLen)

SearchCalls ==
    {[name |-> "search_businesses",
      arguments |-> [latitude |-> 12, longitude |-> 77, radius |-> 10,
                     keyword |-> keyword, limit |-> 10]] : keyword \in Keywords}

\* The search without keyword is answered with every list in every shape,
\* the others with an empty list.
SearchOutcomes(arguments) ==
    {Failure(ReadTimeout)}
    \cup {Success(Payload(shape, data)) :
            shape \in Shapes,
            data \in IF arguments.keyword = <<>> THEN ProviderLists ELSE {<<>>}}

InitSearch == PipelineInit(EmptyDict) /\ Called(SearchCalls)

NextSearch ==
    \/ Handle
    \/ \E outcome \in SearchOutcomes(invocation.arguments) : Attempt(outcome)
    \/ Sleep

SpecSearch == InitSearch /\ [][NextSearch]_<<vars, hvars>>

\* The search has returned after a 2xx answer.
SearchAnswered ==
    /\ invocation.name = "search_businesses"
    /\ position = "returned"
    /\ returned # None
    /\ attempts # <<>>
    /\ attempts[Len(attempts)].ok

\* The ProviderRecords of a result, field by field.
RecordsOf(value) ==
    [i \in DOMAIN value.fields.providers |->
        LET provider == value.fields.providers[i]
        IN  <<provider.id, provider.name, provider.phone, provider.address,
              provider.distance, provider.latitude, provider.longitude, provider.rating>>]

(***************************************************************************)
(* C21.  Both upstream shapes are normalized alike: when the answer lists  *)
(* provider data under "providers", the result holds the ProviderRecords   *)
(* (same number, same id, name, phone, address, distance, latitude,        *)
(* longitude and rating) that the handler returns for the answer listing   *)
(* the same data under "matchingWhistles" with nested "item" objects, and  *)
(* the other way round.                                                    *)
(***************************************************************************)
C21_ShapesNormalizedAlike ==
    SearchAnswered =>
        \A data \in ProviderLists : \A shape \in Shapes :
            attempts[Len(attempts)].body = Payload(shape, data) =>
                \A other \in Shapes :
                    LET alike == SearchResults(invocation.arguments, Payload(other, data))
                    IN  IF alike.kind = "raise"
                        THEN "error" \in DOMAIN returned[1].fields
                        ELSE /\ "error" \notin DOMAIN returned[1].fields
                             /\ RecordsOf(returned[1]) = RecordsOf(alike.value)

\* An answer in the matchingWhistles shape that lists a provider with every
\* fact and one with none has been normalized to two records.
C21_Witness ==
    /\ SearchAnswered
    /\ \E data \in ProviderLists :
          /\ Len(data) = 2
          /\ data[1].present = {}
          /\ attempts[Len(attempts)].body = Payload("whistle", data)
    /\ Len(returned[1].fields.providers) = 2
    /\ returned[1].fields.providers[2].name = "Joe"

\* The text of a ProviderRecord's phone is empty: every part of it is.
EmptyText(parts) == \A i \in DOMAIN parts : parts[i] = ""

(***************************************************************************)
(* C22.  In the ProviderRecord of an upstream entry, in either shape, a    *)
(* name, address or phone the entry does not state is the empty string,    *)
(* and a distance it does not state is 0.0.                                *)
(***************************************************************************)
C22_MissingFieldDefaults ==
    SearchAnswered =>
        \A datum \in ProviderData : \A shape \in Shapes :
            attempts[Len(attempts)].body = Payload(shape, <<datum>>) =>
                LET provider == returned[1].fields.providers[1]
                IN  /\ "name" \notin datum.present => provider.name = ""
                    /\ "address" \notin datum.present => provider.address = ""
                    /\ "phone" \notin datum.present => EmptyText(provider.phone)
                    /\ "distance" \notin datum.present => provider.distance = 0

\* C22 without the phone: name, address and distance have the stated
\* defaults.
C22_OtherDefaults ==
    SearchAnswered =>
        \A datum \in ProviderData : \A shape \in Shapes :
            attempts[Len(attempts)].body = Payload(shape, <<datum>>) =>
                LET provider == returned[1].fields.providers[1]
                IN  /\ "name" \notin datum.present => provider.name = ""
                    /\ "address" \notin datum.present => provider.address = ""
                    /\ "distance" \notin datum.present => provider.distance = 0
                    /\ "phone" \notin datum.present => provider.phone = <<"", " ", "">>

\* `rating`, in hundredths, is the value of the heuristic for the given
\* numbers of likes and dislikes: 2.5 without feedback, and otherwise the
\* hundredth nearest to ((likes - dislikes) / (likes + dislikes) + 1) * 2.5,
\* which is 5 * likes / (likes + dislikes); the even one on a tie.
IsNearestRating(rating, likes, dislikes) ==
    LET total == likes + dislikes
        off == IF rating * total >= 500 * likes
               THEN rating * total - 500 * likes ELSE 500 * likes - rating * total
    IN  IF total = 0 THEN rating = 250
        ELSE /\ 2 * off <= total
             /\ 2 * off = total => rating % 2 = 0

(***************************************************************************)
(* C23.  The rating of every ProviderRecord lies between 0 and 5 and is    *)
(* determined by the numbers of likes and dislikes of its entry alone: it  *)
(* is the rounded value of the heuristic for these counts in every shape;  *)
(* 3 likes and no dislike give 5.0, no feedback gives 2.5, 1 like and 1    *)
(* dislike give 2.5.  (Ratings are in hundredths.)                         *)
(***************************************************************************)
C23_RatingBounded ==
    SearchAnswered =>
        \A datum \in ProviderData : \A shape \in Shapes :
            (attempts[Len(attempts)].body = Payload(shape, <<datum>>) /\ ~datum.far) =>
                LET rating == returned[1].fields.providers[1].rating
                IN  /\ 0 <= rating /\ rating <= 500
                    /\ IsNearestRating(rating, datum.likes, datum.dislikes)
                    /\ (datum.likes = 3 /\ datum.dislikes = 0) => rating = 500
                    /\ (datum.likes = 0 /\ datum.dislikes = 0) => rating = 250
                    /\ (datum.likes = 1 /\ datum.dislikes = 1) => rating = 250

\* A provider with 1 like and 3 dislikes has been rated 1.25.
C23_Witness ==
    /\ SearchAnswered
    /\ \E datum \in ProviderData :
          /\ datum.likes = 1 /\ datum.dislikes = 3
          /\ attempts[Len(attempts)].body = Payload("direct", <<datum>>)
    /\ returned[1].fields.providers[1].rating = 125

\* A text of blanks only.
Blank(s) == \A i \in DOMAIN s : s[i] = " "

\* `sent` is the first pipe-delimited segment of `keyword` without the
\* whitespace around it; `keyword` has a pipe.
IsFirstSegmentTrimmed(sent, keyword) ==
    \E bar \in DOMAIN keyword :
        /\ keyword[bar] = "|"
        /\ \A i \in 1..(bar - 1) : keyword[i] # "|"
        /\ \E from \in 1..bar :
              /\ Blank(SubSeq(keyword, 1, from - 1))
              /\ sent = SubSeq(keyword, from, from + Len(sent) - 1)
              /\ from + Len(sent) <= bar
              /\ Blank(SubSeq(keyword, from + Len(sent), bar - 1))
              /\ sent # <<>> => (sent[1] # " " /\ sent[Len(sent)] # " ")

Tags(n) == [i \in 1..n |-> "plumbing"]

Extractions ==
    {[description |-> description, alert_radius |-> alert_radius, tags |-> Tags(count),
      provider |-> provider, expiry |-> expiry, ask_again |-> ask_again,
      reason |-> IF ask_again THEN "Could not clearly understand the service request"
                 ELSE "",
      confidence_score |-> confidence_score] :
        description \in {UserInput, <<"t", "a", "p">>},
        alert_radius \in {-3, 0, 1, 1000, 1001},
        count \in {0, 1, MaxTags, MaxTags + 1},
        provider \in {JNull, JBoolean(TRUE), JBoolean(FALSE), JString("seeker")},
        expiry \in {"never", "2099-01-01T00:00:00Z", "2001-01-01T00:00:00Z", "next week"},
        ask_again \in BOOLEAN,
        confidence_score \in {20, 55, 90}}

WhistleCalls ==
    {[name |-> "create_whistle",
      arguments |-> [user_input |-> extracted.description, access_token |-> TokBearer,
                     confidence_threshold |-> 60, force_create |-> force_create,
                     extracted |-> extracted]] :
        force_create \in BOOLEAN, extracted \in Extractions}

WhistleOutcomes ==
    {Failure(ReadTimeout),
     Success(JObject([newWhistle |-> [_id |-> "w9", description |-> "fix my tap",
                                      tags |-> <<"plumbing">>, provider |-> FALSE],
                      matchingWhistles |-> <<>>]))}

InitWhistle == PipelineInit(EmptyDict) /\ Called(WhistleCalls)

NextWhistle ==
    \/ Handle
    \/ \E outcome \in WhistleOutcomes : Attempt(outcome)
    \/ Sleep

SpecWhistle == InitWhistle /\ [][NextWhistle]_<<vars, hvars>>

\* The extraction the invocation of create_whistle works on.
Extracted == invocation.arguments.extracted

\* The validator reports an error for the extraction: a description of
\* fewer than 5 characters, no tag at a score above 0.5, an undetermined
\* provider at a score above 0.6, or an expiry in the past.
ValidationFails ==
    \/ Len(Strip(Extracted.description)) < 5
    \/ Extracted.tags = <<>> /\ Extracted.confidence_score > 50
    \/ Extracted.provider = JNull /\ Extracted.confidence_score > 60
    \/ Extracted.expiry = "2001-01-01T00:00:00Z"

\* One of the three reasons to ask the caller back holds.
ClarificationDue ==
    \/ Extracted.ask_again
    \/ ValidationFails
    \/ /\ Extracted.confidence_score < invocation.arguments.confidence_threshold
       /\ ~invocation.arguments.force_create

Posted(i) == requests[i].data.whistle

(***************************************************************************)
(* C29.  Every whistle create_whistle posts to the backend has an          *)
(* alertRadius between 1 and 1000, at most 20 tags and a boolean provider  *)
(* flag, which is false when the extraction left the provider              *)
(* undetermined, whatever the extraction returned.                         *)
(***************************************************************************)
C29_PostedWhistleWithinLimits ==
    invocation.name = "create_whistle" =>
        \A i \in DOMAIN requests :
            /\ 1 <= Posted(i).alertRadius /\ Posted(i).alertRadius <= 1000
            /\ Len(Posted(i).tags) <= 20
            /\ Posted(i).provider.json = "boolean"
            /\ Extracted.provider = JNull => Posted(i).provider = JBoolean(FALSE)

\* C29 for extractions whose provider flag is null or a boolean, and with
\* the flag sent as it was extracted otherwise.
C29_LimitsButProviderAsExtracted ==
    invocation.name = "create_whistle" =>
        \A i \in DOMAIN requests :
            /\ 1 <= Posted(i).alertRadius /\ Posted(i).alertRadius <= 1000
            /\ Len(Posted(i).tags) <= 20
            /\ Extracted.provider.json \in {"null", "boolean"} =>
                  Posted(i).provider.json = "boolean"
            /\ Extracted.provider = JNull => Posted(i).provider = JBoolean(FALSE)
            /\ Extracted.provider # JNull => Posted(i).provider = Extracted.provider

\* A whistle was posted for an extraction with radius 0, 21 tags and an
\* undetermined provider.
C29_ClampedPosted ==
    /\ invocation.name = "create_whistle"
    /\ Extracted.alert_radius = 0
    /\ Len(Extracted.tags) = 21
    /\ Extracted.provider = JNull
    /\ requests # <<>>
    /\ Posted(1).alertRadius = 2
    /\ Len(Posted(1).tags) = 20

(***************************************************************************)
(* C26.  Rate windows are independent.  A step changes the timestamp       *)
(* sequence of a key only when it is the rate-limit step of a call whose   *)
(* own key this is, so a call, admitted or rejected, changes neither the   *)
(* keys of other tools nor the other keys of its own tool; and a key that  *)
(* is in the map stays in it.                                              *)
(***************************************************************************)
C26_WindowsIndependent ==
    [][\A rate_key \in DOMAIN request_counts :
          /\ rate_key \in DOMAIN request_counts'
          /\ request_counts'[rate_key] # request_counts[rate_key] =>
                \E c \in Calls :
                    /\ RateStep(c)
                    /\ rate_key[1] = message[c].name
                    /\ rate_key = KeyOf(c)]_vars

\* The window of anonymous toggle_visibility calls holds its nine entries,
\* a call to get_user_profile has been recorded under its own key, and a
\* toggle_visibility call with a token under a third.
C26_Witness ==
    \E first, second, third \in DOMAIN request_counts :
        /\ first = RateKey("toggle_visibility", Anonymous)
        /\ Len(request_counts[first]) = 9
        /\ second[1] = "get_user_profile"
        /\ Len(request_counts[second]) = 1
        /\ third[1] = "toggle_visibility"
        /\ third # first
        /\ Len(request_counts[third]) = 1

\* Call c is a call to a protected tool that carries a credential in its
\* authorization header and has no access_token argument.
HeaderOnly(c) ==
    /\ message[c].name \in ProtectedNames
    /\ "Authorization" \in DOMAIN headers[c]
    /\ "access_token" \notin DOMAIN original[c]

(***************************************************************************)
(* C27.  The rate limiter handles a protected-tool call before the auth    *)
(* gate has injected the credential of the authorization header, so a call *)
(* that has its credential only there is counted under the key             *)
(* tool_name + ":anonymous": it is rejected exactly when that window holds *)
(* the tool's limit of entries of the last 60 seconds, whoever made them,  *)
(* and recorded in that window otherwise.                                  *)
(***************************************************************************)
C27_HeaderOnlyCountedAnonymous ==
    [][\A c \in Calls : (RateStep(c) /\ HeaderOnly(c)) =>
          LET shared == <<message[c].name, ":", "a", "n", "o", "n", "y", "m", "o", "u", "s">>
              window == CountsOf(admitted, shared)
          IN  /\ "auth" \notin {trace[c][i] : i \in DOMAIN trace[c]}
              /\ "access_token" \notin DOMAIN message[c].arguments
              /\ IF CountInWindow(window, now) >= LimitOf(c)
                 THEN /\ result'[c] = "rate_limited"
                      /\ recorded'[c] = None
                 ELSE /\ result'[c] = "none"
                      /\ recorded'[c] = Some(shared)
                      /\ CountsOf(admitted', shared) = Append(window, now)
              /\ \A rate_key \in DOMAIN request_counts' :
                    rate_key # shared =>
                        /\ rate_key \in DOMAIN request_counts
                        /\ request_counts'[rate_key] = request_counts[rate_key]]_vars

\* An earlier call without access_token took the last place of the anonymous
\* window of toggle_visibility, and the call of a caller who sent the
\* credential "sk-secret77" in the authorization header was rejected as rate
\* limited.
C27_Witness ==
    /\ started = 2
    /\ message[1].name = "toggle_visibility"
    /\ "Authorization" \in DOMAIN headers[1]
    /\ headers[1]["Authorization"] = TokRaw
    /\ "access_token" \notin DOMAIN original[1]
    /\ result[1] = "rate_limited"
    /\ Len(CountsOf(request_counts, RateKey("toggle_visibility", Anonymous))) = 10

(***************************************************************************)
(* The pipeline under OTP calls of several users, one call after the       *)
(* other, while time passes.                                               *)
(***************************************************************************)
\* Number of OTP calls received in one behaviour.
MaxOtpCalls == 4

\* The window of verify_otp calls without phone, one short of its limit:
\* what that many calls made in the first second leave behind.
BusyOtpCounts ==
    Put(EmptyDict, RateKey("verify_otp", Unknown),
        [i \in 1..(RateLimitOf("verify_otp") - 1) |-> 0])

InitOtp == InitWith(EmptyDict) \/ InitWith(BusyOtpCounts)

\* The user of each client: the first client is user "u1", the others "12".
OtpUserOf(c) == IF c = 1 THEN <<"u", "1">> ELSE <<"1", "2">>

\* A client calls verify_otp or resend_otp with the declared arguments, once
\* the call before it has returned.
ReceiveOtpCall(c) ==
    /\ started < MaxOtpCalls
    /\ \A other \in Calls : pc[other] \in {"idle", "done"}
    /\ started' = started + 1
    /\ \/ Receive(c, "verify_otp",
                  [user_id |-> OtpUserOf(c), otp_code |-> <<"1", "2", "3", "4", "5", "6">>],
                  EmptyDict)
       \/ Receive(c, "resend_otp", [user_id |-> OtpUserOf(c)], EmptyDict)

\* A minute passes in two halves.
NextOtp ==
    \/ \E c \in Calls : ReceiveOtpCall(c) \/ Step(c)
    \/ Tick(30)

SpecOtp == InitOtp /\ [][NextOtp]_vars

\* The OTP tools called with nothing but the declared arguments.
DeclaredOnly(c) ==
    /\ message[c].name \in {"verify_otp", "resend_otp"}
    /\ DOMAIN original[c] \subseteq {"user_id", "otp_code"}

\* C28: a verify_otp or resend_otp call that supplies only user_id and
\* otp_code is counted under the key of its tool name and ":unknown", whoever
\* the user is: it is rejected exactly when that one window already holds the
\* tool's limit of entries less than a minute old (10 for verify_otp, 3 for
\* resend_otp), and is recorded in that window otherwise.
C28_OtpCallsShareOneKey ==
    [][\A c \in Calls : (RateStep(c) /\ DeclaredOnly(c)) =>
          LET shared == <<message[c].name, ":", "u", "n", "k", "n", "o", "w", "n">>
              limit == IF message[c].name = "verify_otp" THEN 10 ELSE 3
              window == CountsOf(request_counts, shared)
          IN  IF CountInWindow(window, now) >= limit
              THEN /\ result'[c] = "rate_limited"
                   /\ pc'[c] = "done"
                   /\ recorded'[c] = None
              ELSE /\ result'[c] = "none"
                   /\ pc'[c] # "done"
                   /\ recorded'[c] = Some(shared)
                   /\ CountInWindow(CountsOf(request_counts', shared), now)
                        = CountInWindow(window, now) + 1]_vars

\* From an empty limiter, the resend_otp call of user "u1" was rejected as
\* rate limited although "u1" has no entry of its own: the window of
\* "resend_otp:unknown" holds three entries, the latest one recorded by the
\* call of user "12".
C28_Witness ==
    /\ RateKey("verify_otp", Unknown) \notin DOMAIN request_counts
    /\ message[1].name = "resend_otp"
    /\ original[1] = [user_id |-> <<"u", "1">>]
    /\ result[1] = "rate_limited"
    /\ message[2].name = "resend_otp"
    /\ original[2] = [user_id |-> <<"1", "2">>]
    /\ recorded[2] = Some(RateKey("resend_otp", Unknown))
    /\ Len(CountsOf(request_counts, RateKey("resend_otp", Unknown))) = 3
    /\ \A rate_key \in DOMAIN request_counts : rate_key = RateKey("resend_otp", Unknown)

(***************************************************************************)
(* The tools that POST to endpoints which are not idempotent, each attempt *)
(* failing in any of the ways an attempt can fail, or succeeding.          *)
(***************************************************************************)
\* httpx.ConnectError: the connection to the backend could not be made.
ConnectError == Exception("ConnectError", "All connection attempts failed")

SendCalls == {call \in ToolCalls : call.name \in {"sign_in", "create_whistle"}}

SendOutcomes(tool_name) ==
    {Failure(ReadTimeout), Failure(ConnectError), Failure(HTTPStatusError(400)),
     Failure(HTTPStatusError(503)), Failure(JSONDecodeError)}
    \cup {Success(body) : body \in Bodies(tool_name)}

InitSend == PipelineInit(EmptyDict) /\ Called(SendCalls)

NextSend ==
    \/ Handle
    \/ \E outcome \in SendOutcomes(invocation.name) : Attempt(outcome)
    \/ Sleep

SpecSend == InitSend /\ [][NextSend]_<<vars, hvars>>

\* C30: whatever made an attempt fail (a 4xx or 5xx status, a timeout, a
\* transport error, a body that is not JSON), another attempt follows until
\* MAX_RETRIES attempts were made; every attempt of one call sends the same
\* request, so a call to POST /twilio/sign-in or POST /whistle sends it up to
\* MAX_RETRIES times; and no attempt follows a successful one.
C30_EveryFailureRetried ==
    /\ Len(requests) = Len(attempts)
    /\ Len(requests) <= MAX_RETRIES
    /\ \A i \in DOMAIN requests :
          /\ requests[i] = requests[1]
          /\ requests[i].method = "POST"
          /\ requests[i].endpoint \in {"/twilio/sign-in", "/whistle"}
    /\ \A i \in DOMAIN attempts : attempts[i].ok => i = Len(attempts)
    /\ (attempts # <<>> /\ ~attempts[Len(attempts)].ok) =>
          IF Len(attempts) < MAX_RETRIES
          THEN position \in {"sleep", "attempt"}
          ELSE position = "returned"
    /\ (attempts # <<>> /\ attempts[Len(attempts)].ok) => position = "returned"

\* One sign_in call sent POST /twilio/sign-in three times: after a 400 answer,
\* after a timeout and once more, the last attempt ending in a transport
\* error.
C30_Witness ==
    /\ position = "returned"
    /\ invocation.name = "sign_in"
    /\ Len(requests) = 3
    /\ requests[1].endpoint = "/twilio/sign-in"
    /\ requests[2] = requests[1] /\ requests[3] = requests[1]
    /\ attempts = <<Failure(HTTPStatusError(400)), Failure(ReadTimeout),
                    Failure(ConnectError)>>

\* One create_whistle call sent POST /whistle three times, the third attempt
\* succeeding after two 400 answers.
C30_WhistleRepeated ==
    /\ position = "returned"
    /\ invocation.name = "create_whistle"
    /\ Len(requests) = 3
    /\ \A i \in 1..3 : requests[i].endpoint = "/whistle" /\ requests[i] = requests[1]
    /\ ~attempts[1].ok /\ attempts[1].exception = HTTPStatusError(400)
    /\ ~attempts[2].ok /\ attempts[2].exception = HTTPStatusError(400)
    /\ attempts[3].ok

=============================================================================
